---- MODULE Spec2Model ----
(***************************************************************************)
(* Model of the tail-glow turn-decision pipeline.                          *)
(*                                                                         *)
(* Text is a sequence of tokens.  A token is a word ("x", "switch"), a     *)
(* capitalised word ("X", "Switch"), a separator ("-", " ", "(", ")",      *)
(* "\n") or a response marker ("REASONING:", "ACTION:").  No word token is *)
(* a substring of another one, so Python's substring test on strings       *)
(* coincides with the contiguous-subsequence test on token sequences.      *)
(***************************************************************************)
EXTENDS Integers, Sequences, FiniteSets, TLC

VARIABLES
    \* --- one turn of choose_move (SpecTurn) ---
    battle,                    \* the snapshot handed to choose_move
    damage_calc_raw,           \* AgentState field left by the damage stage
    pc,                        \* position of choose_move in the turn
    expected_opponent_action,  \* AgentState field
    llm_response,              \* AgentState field
    reasoning,                 \* AgentState field
    action_type,               \* AgentState field
    action_target,             \* AgentState field
    error,                     \* AgentState field
    battle_analysis,           \* AgentState field
    team_analysis,             \* battle_context[battle_tag]["team_analysis"]
    llm_calls,                 \* LLM-backed stages that called the provider
    llm_errors,                \* LLM-backed stages whose provider call raised
    order,                     \* what _execute_action returned
    exception,                 \* TRUE when an exception reached the caller
    \* --- one run of the per-turn battle graph (SpecGraph) ---
    env,                       \* how each stage's collaborators behave this turn
    gstate,                    \* the shared AgentState, key by key
    done,                      \* stages that have returned
    running,                   \* stages that have started and not yet returned
    view,                      \* what a running stage read when it started
    returned,                  \* the update each finished stage returned
    mutated,                   \* the keys each finished stage changed in place
    escaped,                   \* TRUE when an exception left a stage node
    \* --- the opponent belief trackers over the turns of a battle (SpecBelief) ---
    tracking,                  \* which tracker this battle's updates go to
    revealed_sets,             \* battle memory: species -> reference of its entry
    heap,                      \* battle memory: the entry objects, by reference
    our_team,                  \* TeamsState.our_team: species -> PokemonState
    their_team,                \* TeamsState.their_team: species -> PokemonState
    \* --- the deterministic engines, one call each (SpecSwitch, SpecDamage,
    \* --- SpecFight) ---
    ranking,                   \* _rank_switches: its arguments
    ranked,                    \* _rank_switches: the list it returned
    calc,                      \* _calculate_single: attack, defender and damage roll
    damage_result,             \* _calculate_single: the DamageResult it returned
    sim,                       \* _simulate_fight: arguments, locals and position
    sim_result,                \* _simulate_fight: the tuple it returned
    \* --- the analysis tools, one call each (SpecSpeed) ---
    speed_call,                \* calculate_speed_matchup: the battle it is given
    speed_analysis,            \* calculate_speed_matchup: the SpeedAnalysis returned
    \* --- (SpecMoves) ---
    move_ranking,              \* _rank_moves: the battle and damage figures given
    ranked_moves,              \* _rank_moves: the list it returned
    \* --- one TailGlowPlayer and its battles (SpecPlayer) ---
    battle_context,            \* self.battle_context: battle_tag -> entry
    player,                    \* the player's flags and counters
    battles,                   \* per battle: its turn counter, the position of its
                               \* choose_move call, and what the call has done
    \* --- the damage engine on the snapshot (SpecVariants) ---
    snapshot,                  \* the Pokemon objects of the Battle, by identifier
    calculator,                \* the DamageCalculator: its TeamsState cache, its
                               \* randbats data, what calculate_damage returns
    variant_result             \* what the last engine call returned or raised

turnVars == <<battle, damage_calc_raw, pc, expected_opponent_action,
              llm_response, reasoning, action_type, action_target, error,
              battle_analysis, team_analysis, llm_calls, llm_errors, order,
              exception>>

graphVars == <<env, gstate, done, running, view, returned,
               mutated, escaped>>

beliefVars == <<tracking, revealed_sets, heap, our_team, their_team>>

switchVars == <<ranking, ranked>>
damageVars == <<calc, damage_result>>
fightVars == <<sim, sim_result>>
engineVars == <<switchVars, damageVars, fightVars>>

speedVars == <<speed_call, speed_analysis>>
moveVars == <<move_ranking, ranked_moves>>
playerVars == <<battle_context, player, battles>>
variantVars == <<snapshot, calculator, variant_result>>
toolVars == <<speedVars, moveVars, playerVars, variantVars>>

vars == <<turnVars, graphVars, beliefVars, engineVars, toolVars>>

(***************************************************************************)
(* Optional values (Python None versus a text).                            *)
(***************************************************************************)
None == [isNone |-> TRUE, text |-> << >>]
Some(t) == [isNone |-> FALSE, text |-> t]
Truthy(o) == ~o.isNone /\ o.text # << >>

(***************************************************************************)
(* Python string operations on token sequences.                            *)
(***************************************************************************)
LowerTok(t) ==
    CASE t = "Switch" -> "switch"
      [] t = "To" -> "to"
      [] t = "X" -> "x"
      [] t = "Y" -> "y"
      [] t = "Struggle" -> "struggle"
      [] t = "Choice" -> "choice"
      [] t = "Scarf" -> "scarf"
      [] t = "Band" -> "band"
      [] t = "Life" -> "life"
      [] t = "Orb" -> "orb"
      [] t = "Leftovers" -> "leftovers"
      [] t = "Guts" -> "guts"
      [] t = "Sheer" -> "sheer"
      [] t = "Force" -> "force"
      [] t = "ACTION:" -> "action:"
      [] t = "REASONING:" -> "reasoning:"
      [] OTHER -> t

CapTok(t) ==
    CASE t = "switch" -> "Switch"
      [] t = "to" -> "To"
      [] t = "x" -> "X"
      [] t = "y" -> "Y"
      [] t = "struggle" -> "Struggle"
      [] OTHER -> t

IsLetterTok(t) == LowerTok(t) \in {"switch", "to", "x", "y", "struggle"}
IsSpaceTok(t) == t \in {" ", "\n"}

\* str.lower()
Lower(s) == [i \in 1..Len(s) |-> LowerTok(s[i])]

\* str.title(): a letter that follows a non-letter is upper-cased, any other
\* letter is lower-cased.
Title(s) ==
    [i \in 1..Len(s) |->
        IF ~IsLetterTok(s[i]) THEN s[i]
        ELSE IF i = 1 \/ ~IsLetterTok(s[i-1]) THEN CapTok(LowerTok(s[i]))
        ELSE LowerTok(s[i])]

\* str.replace(a, b) for single-token a and b
Replace(s, a, b) == [i \in 1..Len(s) |-> IF s[i] = a THEN b ELSE s[i]]

\* str.replace(a, "")
Remove(s, a) == SelectSeq(s, LAMBDA t : t # a)

\* str.strip()
Strip(s) ==
    LET keep == {i \in 1..Len(s) : ~IsSpaceTok(s[i])}
    IN  IF keep = {} THEN << >>
        ELSE LET lo == CHOOSE i \in keep : \A j \in keep : i <= j
                 hi == CHOOSE i \in keep : \A j \in keep : j <= i
             IN  SubSeq(s, lo, hi)

\* needle in hay
Contains(hay, needle) ==
    \/ needle = << >>
    \/ \E i \in 1..(Len(hay) - Len(needle) + 1) :
          SubSeq(hay, i, i + Len(needle) - 1) = needle

\* str.split()[0] of a text that holds a non-space token
FirstWord(s) ==
    LET t == Strip(s)
        sp == {i \in 1..Len(t) : IsSpaceTok(t[i])}
    IN  IF sp = {} THEN t
        ELSE SubSeq(t, 1, (CHOOSE i \in sp : \A j \in sp : i <= j) - 1)

\* start of the run of whitespace that ends right before position i
WsRunStart(s, i) ==
    LET starts == {k \in 1..i : \A j \in k..(i-1) : IsSpaceTok(s[j])}
    IN  CHOOSE k \in starts : \A j \in starts : k <= j

\* last position of the line that position q is on
LineEnd(s, q) ==
    LET nl == {k \in q..Len(s) : s[k] = "\n"}
    IN  IF nl = {} THEN Len(s)
        ELSE (CHOOSE k \in nl : \A j \in nl : k <= j) - 1

\* first position at or after p that holds no whitespace (Len(s)+1 if none)
AfterWs(s, p) ==
    LET ok == {q \in p..(Len(s)+1) : \A j \in p..(q-1) : IsSpaceTok(s[j])}
    IN  CHOOSE q \in ok : \A j \in ok : j <= q

\* re.sub(r"\s*\(.*\)", "", s) on a one-line text
ParenStrip(s) ==
    LET opens == {i \in 1..Len(s) : s[i] = "("}
        closes == {j \in 1..Len(s) : s[j] = ")"}
    IN  IF \E i \in opens, j \in closes : i < j
        THEN LET i0 == CHOOSE i \in opens : \A k \in opens : i <= k
                 j0 == CHOOSE j \in closes : \A k \in closes : k <= j
             IN  SubSeq(s, 1, WsRunStart(s, i0) - 1) \o SubSeq(s, j0 + 1, Len(s))
        ELSE s

\* re.sub(r"\s*-.*$", "", s) on a one-line text
DashStrip(s) ==
    LET dashes == {i \in 1..Len(s) : s[i] = "-"}
    IN  IF dashes = {} THEN s
        ELSE LET d == CHOOSE i \in dashes : \A k \in dashes : i <= k
             IN  SubSeq(s, 1, WsRunStart(s, d) - 1)


Min(S) == CHOOSE x \in S : \A y \in S : x <= y

(***************************************************************************)
(* The regular expressions of parse_decision_node.                         *)
(***************************************************************************)
NoMatch == [found |-> FALSE, text |-> << >>]
Match(t) == [found |-> TRUE, text |-> t]

\* r"ACTION:\s*(.+?)(?:\n|$)" tried at the marker in position m.  \s* is
\* greedy and may run over line ends; when only whitespace follows the
\* marker the engine backtracks to the last blank, which becomes the group.
ActionGroupAt(s, m) ==
    LET q == AfterWs(s, m + 1)
        blanks == {k \in (m+1)..Len(s) : s[k] = " "}
    IN  IF q <= Len(s) THEN Match(SubSeq(s, q, LineEnd(s, q)))
        ELSE IF blanks # {} THEN Match(<<" ">>)
        ELSE NoMatch

\* re.search(r"ACTION:\s*(.+?)(?:\n|$)", response, re.IGNORECASE)
ActionSearch(s) ==
    LET ms == {m \in 1..Len(s) :
                  LowerTok(s[m]) = "action:" /\ ActionGroupAt(s, m).found}
    IN  IF ms = {} THEN NoMatch ELSE ActionGroupAt(s, Min(ms))

\* r"REASONING:\s*(.+?)(?=\nACTION:|$)" with DOTALL, tried at position m
ReasoningGroupAt(s, m) ==
    LET q == AfterWs(s, m + 1)
        ends == {e \in q..Len(s) :
                    \/ e = Len(s)
                    \/ (e = Len(s) - 1 /\ s[Len(s)] = "\n")
                    \/ (e + 2 <= Len(s) /\ s[e+1] = "\n"
                          /\ LowerTok(s[e+2]) = "action:")}
    IN  IF q <= Len(s) THEN Match(SubSeq(s, q, Min(ends)))
        ELSE IF m < Len(s) THEN Match(<<s[Len(s)]>>)
        ELSE NoMatch

\* re.search(r"REASONING:\s*(.+?)(?=\nACTION:|$)", response, IGNORECASE | DOTALL)
ReasoningSearch(s) ==
    LET ms == {m \in 1..Len(s) :
                  LowerTok(s[m]) = "reasoning:" /\ ReasoningGroupAt(s, m).found}
    IN  IF ms = {} THEN NoMatch ELSE ReasoningGroupAt(s, Min(ms))

\* re.search(r"switch to\s+(.+)", action_text, re.IGNORECASE)
SwitchToSearch(a) ==
    LET ms == {i \in 1..Len(a) :
                  /\ i + 3 <= Len(a)
                  /\ LowerTok(a[i]) = "switch" /\ a[i+1] = " "
                  /\ LowerTok(a[i+2]) = "to" /\ IsSpaceTok(a[i+3])
                  /\ AfterWs(a, i + 3) <= Len(a)}
    IN  IF ms = {} THEN NoMatch
        ELSE Match(SubSeq(a, AfterWs(a, Min(ms) + 3), Len(a)))

\* re.search(r"switch\s+(.+)", action_text, re.IGNORECASE)
SwitchSearch(a) ==
    LET ms == {i \in 1..Len(a) :
                  /\ i + 1 <= Len(a)
                  /\ LowerTok(a[i]) = "switch" /\ IsSpaceTok(a[i+1])
                  /\ AfterWs(a, i + 1) <= Len(a)}
    IN  IF ms = {} THEN NoMatch
        ELSE Match(SubSeq(a, AfterWs(a, Min(ms) + 1), Len(a)))

\* number of characters of a token
CharLen(t) ==
    CASE LowerTok(t) = "switch" -> 6
      [] LowerTok(t) = "to" -> 2
      [] LowerTok(t) = "struggle" -> 8
      [] LowerTok(t) = "action:" -> 7
      [] LowerTok(t) = "reasoning:" -> 10
      [] t = "LLM error fallback." -> 19
      [] t = "No options available." -> 21
      [] t = "Long" -> 280
      [] OTHER -> 1

RECURSIVE TextLen(_)
TextLen(s) == IF s = << >> THEN 0 ELSE CharLen(Head(s)) + TextLen(Tail(s))

\* chat budget of parse_decision_node
ReasoningLimit == 280

\* a parser that would store the reasoning uncut
NoTruncate(s) == s

\* reasoning[:280] if len(reasoning) > 280 else reasoning (cut between tokens)
Truncate(s) ==
    IF TextLen(s) > ReasoningLimit
    THEN LET fits == {n \in 0..Len(s) : TextLen(SubSeq(s, 1, n)) <= ReasoningLimit}
         IN  SubSeq(s, 1, CHOOSE n \in fits : \A k \in fits : k <= n)
    ELSE s

(***************************************************************************)
(* decide.py: the text substituted when the decision LLM call raises.      *)
(***************************************************************************)
_create_fallback_response(b) ==
    IF b.available_moves # << >>
    THEN <<"REASONING:", " ", "LLM error fallback.", "\n", "ACTION:", " ">>
            \o Title(Replace(b.available_moves[1], "-", " "))
    ELSE IF b.available_switches # << >>
    THEN <<"REASONING:", " ", "LLM error fallback.", "\n", "ACTION:", " ",
           "Switch", " ", "to", " ">> \o b.available_switches[1]
    ELSE <<"REASONING:", " ", "No options available.", "\n", "ACTION:", " ",
           "Struggle">>

(***************************************************************************)
(* parse.py: parse_decision_node.  err is the error field on entry.        *)
(***************************************************************************)
ParseReasoning(response) ==
    LET rm == ReasoningSearch(response)
    IN  IF rm.found THEN Some(Truncate(Strip(rm.text))) ELSE None

ParseSwitchTarget(action_text) ==
    LET st == SwitchToSearch(action_text)
        sw == SwitchSearch(action_text)
    IN  IF st.found THEN Some(Lower(Strip(st.text)))
        ELSE IF sw.found THEN Some(Lower(Strip(sw.text)))
        ELSE None

ParseMoveTarget(action_text) ==
    Some(Strip(DashStrip(ParenStrip(Lower(action_text)))))

parse_decision_node(response, err) ==
    LET am == ActionSearch(response)
        action_text == Strip(am.text)
    IN  IF am.found
        THEN IF Contains(Lower(action_text), <<"switch">>)
             THEN [reasoning |-> ParseReasoning(response),
                   action_type |-> "switch",
                   action_target |-> ParseSwitchTarget(action_text),
                   error |-> err]
             ELSE [reasoning |-> ParseReasoning(response),
                   action_type |-> "move",
                   action_target |-> ParseMoveTarget(action_text),
                   error |-> err]
        ELSE [reasoning |-> ParseReasoning(response),
              action_type |-> "move",
              action_target |-> None,
              error |-> "Could not parse response"]

(***************************************************************************)
(* client.py: TailGlowPlayer._execute_action.                              *)
(***************************************************************************)
MoveOrder(m) == [kind |-> "move", name |-> m]
SwitchOrder(p) == [kind |-> "switch", name |-> p]
\* choose_random_move on a snapshot without any option: the default order
DefaultOrder == [kind |-> "default", name |-> << >>]
\* an exception leaving _execute_action
RaisedOrder == [kind |-> "raise", name |-> << >>]

SwitchMatches(b, target) ==
    LET target_clean == Remove(Remove(target, "-"), " ")
    IN  {i \in 1..Len(b.available_switches) :
            LET species_lower == Remove(Lower(b.available_switches[i]), "-")
            IN  Contains(species_lower, target_clean)
                  \/ Contains(target_clean, species_lower)}

MoveMatches(b, target) ==
    LET target_clean == Remove(Remove(target, "-"), " ")
    IN  {i \in 1..Len(b.available_moves) :
            LET move_id_clean == Remove(Remove(b.available_moves[i], "-"), " ")
            IN  Contains(move_id_clean, target_clean)
                  \/ Contains(target_clean, move_id_clean)}

MovePartialMatches(b, target) ==
    {i \in 1..Len(b.available_moves) :
        Contains(Lower(b.available_moves[i]), FirstWord(target))}

\* _execute_action without the fall-through from an unanswerable switch
\* decision to the move branch
ExecuteNoFallThrough(b, atype, atarget) ==
    LET sw == b.available_switches
        mv == b.available_moves
        tgt == atarget.text
    IN  IF atype = "switch"
        THEN IF Truthy(atarget) /\ SwitchMatches(b, tgt) # {}
             THEN SwitchOrder(sw[Min(SwitchMatches(b, tgt))])
             ELSE IF sw # << >> THEN SwitchOrder(sw[1])
             ELSE DefaultOrder
        ELSE IF Truthy(atarget) /\ mv # << >> /\ MoveMatches(b, tgt) # {}
        THEN MoveOrder(mv[Min(MoveMatches(b, tgt))])
        ELSE IF mv # << >> THEN MoveOrder(mv[1])
        ELSE IF sw # << >> THEN SwitchOrder(sw[1])
        ELSE DefaultOrder

\* _execute_action with a switch branch that does not ask for a target
ExecuteSwitchUntargeted(b, atype, atarget) ==
    LET sw == b.available_switches
        mv == b.available_moves
        tgt == atarget.text
    IN  IF atype = "switch" /\ Truthy(atarget) /\ SwitchMatches(b, tgt) # {}
        THEN SwitchOrder(sw[Min(SwitchMatches(b, tgt))])
        ELSE IF atype = "switch" /\ sw # << >>
        THEN SwitchOrder(sw[1])
        ELSE IF Truthy(atarget) /\ mv # << >> /\ MoveMatches(b, tgt) # {}
        THEN MoveOrder(mv[Min(MoveMatches(b, tgt))])
        ELSE IF mv # << >> THEN MoveOrder(mv[1])
        ELSE IF sw # << >> THEN SwitchOrder(sw[1])
        ELSE DefaultOrder

_execute_action(b, atype, atarget) ==
    LET sw == b.available_switches
        mv == b.available_moves
        tgt == atarget.text
    IN  IF atype = "switch" /\ Truthy(atarget) /\ SwitchMatches(b, tgt) # {}
        THEN SwitchOrder(sw[Min(SwitchMatches(b, tgt))])
        ELSE IF atype = "switch" /\ Truthy(atarget) /\ sw # << >>
        THEN SwitchOrder(sw[1])
        ELSE IF Truthy(atarget) /\ mv # << >> /\ MoveMatches(b, tgt) # {}
        THEN MoveOrder(mv[Min(MoveMatches(b, tgt))])
        ELSE IF Truthy(atarget) /\ mv # << >> /\ Strip(tgt) = << >>
        THEN RaisedOrder
        ELSE IF Truthy(atarget) /\ mv # << >> /\ MovePartialMatches(b, tgt) # {}
        THEN MoveOrder(mv[Min(MovePartialMatches(b, tgt))])
        ELSE IF mv # << >> THEN MoveOrder(mv[1])
        ELSE IF sw # << >> THEN SwitchOrder(sw[1])
        ELSE DefaultOrder

(***************************************************************************)
(* The opponent belief trackers: battle_memory._update_revealed_sets and   *)
(* TeamsState.update_from_battle.  Python objects that are shared between  *)
(* dictionaries are kept in a heap and named by reference.                 *)
(***************************************************************************)
MaxRevealed == 1

SpeciesA == <<"x">>
SpeciesB == <<"x", "-", "y">>
OurSpecies == <<"y">>
\* the order in which battle.opponent_team lists its Pokemon
SpeciesOrder == <<SpeciesA, SpeciesB>>

BeliefMoves == {<<"x">>, <<"x", "-", "y">>}
ItemReports == {"None", "unknown_item", "leftovers", "choicescarf"}
AbilityReports == {"None", "intimidate", "moxie"}

\* sequences without repetition, of length at most n
DistinctSeqs(S, n) ==
    UNION {{q \in [1..k -> S] : \A i, j \in 1..k : i # j => q[i] # q[j]} :
              k \in 0..n}

\* Python truthiness of an optional string
Falsy(v) == v \in {"None", ""}

\* the opposing Pokemon of a snapshot: the first species with everything the
\* server may report about it (on the field unless fainted), the second one
\* on the bench with nothing revealed
OpponentA ==
    {[moves |-> mv, item |-> it, ability |-> ab, fainted |-> f, active |-> ~f] :
        mv \in DistinctSeqs(BeliefMoves, MaxRevealed), it \in ItemReports,
        ab \in AbilityReports, f \in BOOLEAN}
OpponentB ==
    {[moves |-> << >>, item |-> "unknown_item", ability |-> "None",
      fainted |-> FALSE, active |-> FALSE]}

\* battle.opponent_team, species -> Pokemon
OpponentTeams ==
    {<< >>} \cup {SpeciesA :> a : a \in OpponentA}
            \cup {SpeciesB :> b : b \in OpponentB}
            \cup {SpeciesA :> a @@ SpeciesB :> b : a \in OpponentA, b \in OpponentB}

\* battle.team, species -> Pokemon
OurTeams ==
    {OurSpecies :> [moves |-> << >>, item |-> "None", ability |-> "None",
                    fainted |-> f, active |-> ~f] : f \in BOOLEAN}

\* opponent_sets as fetch_opponent_sets_node leaves it: empty, or the pool of
\* the first species
OpponentSetsChoices ==
    {<< >>,
     SpeciesA :> [possible_items |-> <<"leftovers">>],
     SpeciesA :> [possible_items |-> <<"leftovers", "choicescarf">>]}

\* pokemon.current_hp_fraction * 100 and pokemon.status of a snapshot Pokemon
HpPercent(p) == IF p.fainted THEN 0 ELSE 100
StatusName(p) == IF p.fainted THEN "FNT" ELSE "None"

\* species.lower().replace(" ", "").replace("-", "")
NormalizeId(t) == Remove(Remove(Lower(t), " "), "-")

Range(q) == {q[i] : i \in 1..Len(q)}

\* a tracker that would overwrite revealed_moves with the snapshot's moves
ReplaceMoves(list, moves) == moves

RECURSIVE AppendNew(_, _)
\* for move_id in moves: if move_id not in list: list.append(move_id)
AppendNew(list, moves) ==
    IF moves = << >> THEN list
    ELSE AppendNew(IF Head(moves) \in Range(list) THEN list
                   ELSE Append(list, Head(moves)),
                   Tail(moves))

RECURSIVE AppendNewNormalized(_, _)
\* the same with both sides normalized before they are compared
AppendNewNormalized(list, moves) ==
    IF moves = << >> THEN list
    ELSE AppendNewNormalized(
             IF NormalizeId(Head(moves)) \in {NormalizeId(m) : m \in Range(list)}
             THEN list ELSE Append(list, Head(moves)),
             Tail(moves))

NewEntry ==
    [revealed_moves |-> << >>, revealed_item |-> "None", deduced_item |-> "None",
     revealed_ability |-> "None", fainted |-> FALSE]

_deduce_item(species, opponent_sets) ==
    LET species_key == NormalizeId(species)
    IN  IF species_key \notin DOMAIN opponent_sets THEN "None"
        ELSE IF Len(opponent_sets[species_key].possible_items) = 1
        THEN opponent_sets[species_key].possible_items[1]
        ELSE "None"

\* the body of the loop of _update_revealed_sets on one entry object
UpdateEntry(entry, species, pokemon, opponent_sets) ==
    LET e1 == [entry EXCEPT !.revealed_moves = AppendNew(@, pokemon.moves)]
        e2 == IF ~Falsy(pokemon.item) /\ pokemon.item \notin {"", "unknown"}
              THEN [e1 EXCEPT !.revealed_item = pokemon.item] ELSE e1
        e3 == IF ~Falsy(pokemon.ability)
              THEN [e2 EXCEPT !.revealed_ability = pokemon.ability] ELSE e2
        e4 == IF pokemon.fainted THEN [e3 EXCEPT !.fainted = TRUE] ELSE e3
        deduced == _deduce_item(species, opponent_sets)
    IN  IF Falsy(e4.revealed_item) /\ Falsy(e4.deduced_item) /\ ~Falsy(deduced)
        THEN [e4 EXCEPT !.deduced_item = deduced]
        ELSE e4

RECURSIVE UpdateRevealedLoop(_, _, _, _, _)
\* for pokemon in battle.opponent_team.values(): ... on the copied dictionary
\* revealed and the heap h of entry objects
UpdateRevealedLoop(todo, opponent_team, revealed, h, opponent_sets) ==
    IF todo = << >> THEN [revealed |-> revealed, heap |-> h]
    ELSE LET species == Head(todo)
         IN  IF species \notin DOMAIN opponent_team
             THEN UpdateRevealedLoop(Tail(todo), opponent_team, revealed, h,
                                     opponent_sets)
             ELSE LET known == species \in DOMAIN revealed
                      ref == IF known THEN revealed[species] ELSE Len(h) + 1
                      h1 == IF known THEN h ELSE Append(h, NewEntry)
                      h2 == [h1 EXCEPT ![ref] =
                                UpdateEntry(@, species, opponent_team[species],
                                            opponent_sets)]
                  IN  UpdateRevealedLoop(
                          Tail(todo), opponent_team,
                          IF known THEN revealed ELSE revealed @@ (species :> ref),
                          h2, opponent_sets)

\* revealed = dict(previous_revealed) copies the references, not the entries
_update_revealed_sets(opponent_team, previous_revealed, opponent_sets, h) ==
    UpdateRevealedLoop(SpeciesOrder, opponent_team, previous_revealed, h,
                       opponent_sets)

\* randbats data: level and item pool per species
RandbatsSpecies == {SpeciesA}
RandbatsLevel(species) == IF species \in RandbatsSpecies THEN 84 ELSE 100
RandbatsItems(species) ==
    IF species \in RandbatsSpecies THEN <<"leftovers", "choicescarf">> ELSE << >>

RandbatsMoves(species) ==
    IF species \in RandbatsSpecies THEN BeliefMoves ELSE {}
RandbatsAbilities(species) ==
    IF species \in RandbatsSpecies THEN <<"intimidate", "moxie">> ELSE << >>

\* TeamsState._calculate_stats: the level, and the stat line as the spread and
\* level compute_raw_stats is given
_calculate_stats(species) ==
    [level |-> RandbatsLevel(species),
     stats |-> [spread |-> IF species \in RandbatsSpecies THEN "randbats" ELSE "default",
                level |-> RandbatsLevel(species)]]

_create_pokemon_state(species, pokemon) ==
    [species |-> species, level |-> _calculate_stats(species).level,
     stats |-> _calculate_stats(species).stats,
     possible_moves |-> RandbatsMoves(species),
     possible_abilities |-> RandbatsAbilities(species),
     possible_items |-> RandbatsItems(species),
     current_hp_percent |-> 100, status |-> "None", is_active |-> FALSE,
     is_fainted |-> FALSE, revealed_moves |-> << >>,
     revealed_ability |-> "None", revealed_item |-> "None"]

_update_dynamic_state(state, pokemon) ==
    [state EXCEPT !.current_hp_percent = HpPercent(pokemon),
                  !.status = StatusName(pokemon),
                  !.is_active = pokemon.active,
                  !.is_fainted = pokemon.fainted]

\* an update that narrows the item pool to a revealed item
NarrowToRevealed(state, pokemon) ==
    LET s1 == [state EXCEPT !.revealed_moves = AppendNewNormalized(@, pokemon.moves)]
    IN  IF ~Falsy(pokemon.item) /\ pokemon.item # "unknown_item"
        THEN [s1 EXCEPT !.revealed_item = pokemon.item,
                        !.possible_items = <<pokemon.item>>]
        ELSE s1

_update_revealed_info(state, pokemon) ==
    LET s1 == [state EXCEPT !.revealed_moves = AppendNewNormalized(@, pokemon.moves)]
        s2 == IF ~Falsy(pokemon.ability) /\ Falsy(s1.revealed_ability)
              THEN [s1 EXCEPT !.revealed_ability = pokemon.ability] ELSE s1
    IN  IF ~Falsy(pokemon.item) /\ pokemon.item # "unknown_item"
              /\ Falsy(s2.revealed_item)
        THEN [s2 EXCEPT !.revealed_item = pokemon.item] ELSE s2

\* the state of species in team, created on first sight
StateOf(team, species, pokemon) ==
    IF species \in DOMAIN team THEN team[species]
    ELSE _create_pokemon_state(species, pokemon)

_update_our_team(team, our) ==
    [species \in DOMAIN team \cup DOMAIN our |->
        IF species \in DOMAIN our
        THEN _update_dynamic_state(StateOf(team, species, our[species]), our[species])
        ELSE team[species]]

_update_their_team(team, opponent_team) ==
    [species \in DOMAIN team \cup DOMAIN opponent_team |->
        IF species \in DOMAIN opponent_team
        THEN _update_revealed_info(
                 _update_dynamic_state(
                     StateOf(team, species, opponent_team[species]),
                     opponent_team[species]),
                 opponent_team[species])
        ELSE team[species]]

BeliefIdle ==
    /\ tracking = "none"
    /\ revealed_sets = << >>
    /\ heap = << >>
    /\ our_team = << >>
    /\ their_team = << >>

(***************************************************************************)
(* The deterministic engines.  Nothing has been called yet:                *)
(***************************************************************************)
NotCalled == [called |-> FALSE]

SwitchIdle == ranking = NotCalled /\ ranked = << >>
DamageIdle == calc = NotCalled /\ damage_result = NotCalled
FightIdle == sim = NotCalled /\ sim_result = NotCalled
SpeedIdle == speed_call = NotCalled /\ speed_analysis = NotCalled
MovesIdle == move_ranking = NotCalled /\ ranked_moves = << >>
PlayerIdle == battle_context = << >> /\ player = NotCalled /\ battles = << >>
VariantsIdle == snapshot = << >> /\ calculator = NotCalled /\ variant_result = NotCalled
ToolIdle == SpeedIdle /\ MovesIdle /\ PlayerIdle /\ VariantsIdle
EngineIdle == SwitchIdle /\ DamageIdle /\ FightIdle /\ ToolIdle

(***************************************************************************)
(* best_switches.py.  Percentages are floats in the code; here they are    *)
(* integers counted in units of 1/Scale percent, which holds every value   *)
(* the code adds up exactly (12.5 * 0.25, 16.67, halves of percentages).   *)
(***************************************************************************)
Scale == 400

\* expected_move.lower().replace(" ", "")
MoveKey(expected_move) == Remove(Lower(expected_move), " ")

\* _get_expected_move: the action of the first predicted move, if any;
\* predictions is None when there is no expected action
_get_expected_move(predictions) ==
    LET moves == IF predictions = "None" THEN << >>
                 ELSE SelectSeq(predictions, LAMBDA pr : pr.action_type = "move")
    IN  IF moves = << >> THEN None ELSE Some(moves[1].action)

RECURSIVE _get_rock_effectiveness(_)
\* four times the Rock multiplier of a list of types
_get_rock_effectiveness(types) ==
    IF types = << >> THEN 4
    ELSE LET rest == _get_rock_effectiveness(Tail(types))
         IN  IF Head(types) \in {"fire", "ice", "flying", "bug"} THEN rest * 2
             ELSE IF Head(types) \in {"fighting", "ground", "steel"}
             THEN rest \div 2
             ELSE rest

\* {1: 12.5, 2: 16.67, 3: 25.0}.get(spikes_layers, 0)
SpikesDamage(layers) ==
    CASE layers = 1 -> 5000
      [] layers = 2 -> 6668
      [] layers = 3 -> 10000
      [] OTHER -> 0

_calculate_hazard_damage(pokemon, side_conditions) ==
    LET sr == IF side_conditions.stealth_rock
              THEN 1250 * _get_rock_effectiveness(pokemon.types) ELSE 0
        spikes == IF side_conditions.spikes > 0
                     /\ "flying" \notin Range(pokemon.types)
                     /\ pokemon.ability # "levitate"
                  THEN SpikesDamage(side_conditions.spikes) ELSE 0
    IN  sr + spikes

\* (result.min_percent + result.max_percent) / 2
AverageDamage(result) == (Scale \div 2) * (result.min_percent + result.max_percent)

\* max(results, key=lambda r: r.max_percent): the first of the largest
WorstCase(results) ==
    LET top == {i \in 1..Len(results) :
                   \A j \in 1..Len(results) :
                      results[j].max_percent <= results[i].max_percent}
    IN  results[Min(top)]

NoAttack == [known |-> FALSE, move |-> << >>, worst_case |-> FALSE, damage |-> 0]

\* the attack of _calculate_switch_score against the first entry of
\* their_vs_bench for this species: the predicted move's average damage,
\* replaced by the worst case when that damage is 0
AttackOn(species, opponent_active, expected_move, their_vs_bench) ==
    LET entries == {i \in 1..Len(their_vs_bench) :
                       their_vs_bench[i].defender = species}
    IN  IF ~opponent_active \/ their_vs_bench = << >> \/ entries = {}
        THEN NoAttack
        ELSE LET results == their_vs_bench[Min(entries)].results
                 hits == IF Truthy(expected_move)
                         THEN {i \in 1..Len(results) :
                                  results[i].move = MoveKey(expected_move.text)}
                         ELSE {}
                 found == hits # {}
                 predicted == IF found THEN AverageDamage(results[Min(hits)]) ELSE 0
             IN  IF predicted = 0 /\ results # << >>
                 THEN [known |-> TRUE, move |-> WorstCase(results).move,
                       worst_case |-> TRUE,
                       damage |-> AverageDamage(WorstCase(results))]
                 ELSE IF found
                 THEN [known |-> TRUE, move |-> results[Min(hits)].move,
                       worst_case |-> FALSE, damage |-> predicted]
                 ELSE NoAttack

_calculate_switch_score(pokemon, r) ==
    LET species == pokemon.species
        current_hp == pokemon.current_hp_percent * Scale
        hazard_damage == _calculate_hazard_damage(pokemon, r.side_conditions)
        attack == AttackOn(species, r.opponent_active, r.expected_move,
                           r.their_vs_bench)
        total_damage == hazard_damage + attack.damage
        survives == (current_hp - total_damage) > 0
        hp_after == IF current_hp - total_damage > 0
                    THEN current_hp - total_damage ELSE 0
        matchup_data == IF r.opponent_active /\ species \in DOMAIN r.matchup_results
                        THEN r.matchup_results[species]
                        ELSE [outcome |-> "None", our_remaining_hp_percent |-> 0]
        bonus == IF matchup_data.outcome = "win"
                 THEN 50 * Scale
                        + (Scale \div 2) * matchup_data.our_remaining_hp_percent
                 ELSE IF matchup_data.outcome = "draw" THEN 25 * Scale
                 ELSE 0
    IN  [pokemon |-> species,
         damage_on_switch |-> [hazards |-> hazard_damage, attack |-> attack,
                               total |-> total_damage],
         survives |-> survives,
         matchup_result |-> matchup_data.outcome,
         score |-> IF survives THEN 100 * Scale + hp_after + bonus
                   ELSE -100 * Scale]

\* a ranking that would leave the switches in the order of the team
KeepOrder(list) == list

RECURSIVE SortByScore(_)
\* list.sort(key=lambda x: x["score"], reverse=True): stable, equal scores
\* keep their order
SortByScore(list) ==
    IF list = << >> THEN << >>
    ELSE LET rest == SortByScore(Tail(list))
             before == SelectSeq(rest, LAMBDA e : e.score > Head(list).score)
             after == SelectSeq(rest, LAMBDA e : e.score <= Head(list).score)
         IN  before \o <<Head(list)>> \o after

_rank_switches(r) ==
    LET switch_scores == [i \in 1..Len(r.switches) |->
                             _calculate_switch_score(r.switches[i], r)]
        sorted == SortByScore(switch_scores)
    IN  [i \in 1..Len(sorted) |-> sorted[i] @@ [rank |-> i]]

(***************************************************************************)
(* damage_calc/calculator.py: DamageCalculator._calculate_single and       *)
(* _calculate_ko_chance.  Damage and HP are integers as in the code;       *)
(* min_percent and max_percent are kept in tenths of a percent.            *)
(***************************************************************************)
\* round(num / den) to the nearest integer, ties to the even one, as the
\* format ".0f" and round(x, 1) do; num >= 0, den > 0
RoundHalfEven(num, den) ==
    LET q == num \div den
        r == num % den
    IN  IF 2 * r < den THEN q
        ELSE IF 2 * r > den THEN q + 1
        ELSE IF q % 2 = 0 THEN q ELSE q + 1

NoKo == [kind |-> "None", percent |-> 0]

\* a KO test that would need the damage to exceed the current HP
KoChanceStrict(min_dmg, max_dmg, current_hp) ==
    IF min_dmg > current_hp THEN [kind |-> "guaranteed", percent |-> 0]
    ELSE IF max_dmg > current_hp
    THEN [kind |-> "percent",
          percent |-> RoundHalfEven(100 * (max_dmg - current_hp),
                                    max_dmg - min_dmg + 1)]
    ELSE NoKo

_calculate_ko_chance(min_dmg, max_dmg, current_hp) ==
    IF min_dmg >= current_hp THEN [kind |-> "guaranteed", percent |-> 0]
    ELSE IF max_dmg >= current_hp
    THEN LET range_size == max_dmg - min_dmg + 1
             ko_rolls == max_dmg - current_hp + 1
         IN  IF ko_rolls > 0
             THEN [kind |-> "percent",
                   percent |-> RoundHalfEven(100 * ko_rolls, range_size)]
             ELSE NoKo
    ELSE NoKo

\* int(x) of a float x = num / den with num >= 0, den > 0
IntOf(num, den) == num \div den

\* lines 249-262: the defender's current HP as an HP value
DefenderCurrentHp(c) ==
    IF c.is_opponent /\ c.has_current_hp
    THEN IntOf(c.current_hp * c.defender_max_hp, 100)
    ELSE IF ~c.has_current_hp
    THEN IntOf(c.current_hp_fraction_percent * c.defender_max_hp, 100)
    ELSE c.current_hp

_calculate_single(c) ==
    [called |-> TRUE,
     min_damage |-> c.min_dmg,
     max_damage |-> c.max_dmg,
     min_percent |-> RoundHalfEven(1000 * c.min_dmg, c.defender_max_hp),
     max_percent |-> RoundHalfEven(1000 * c.max_dmg, c.defender_max_hp),
     ko_chance |-> _calculate_ko_chance(c.min_dmg, c.max_dmg, DefenderCurrentHp(c))]

(***************************************************************************)
(* agent/nodes/matchup_calculator.py: MatchupCalculator._simulate_fight.   *)
(* HP and damage are percentages; the simulation only subtracts and        *)
(* compares them, so they are integers here.                               *)
(***************************************************************************)
max_turns == 20

Max0(x) == IF x > 0 THEN x ELSE 0

\* a loop that goes on for as long as our side stands
LoopWhileWeStand(our_hp, their_hp, turns) ==
    our_hp > 0 /\ turns < max_turns

\* while our_hp > 0 and their_hp > 0 and turns < max_turns
LoopContinues(our_hp, their_hp, turns) ==
    our_hp > 0 /\ their_hp > 0 /\ turns < max_turns

\* a loop body in which the slower side always strikes back
TurnWithoutBreak(s) ==
    [s EXCEPT !.turns = s.turns + 1,
              !.their_hp = s.their_hp - s.our_damage_per_turn,
              !.our_hp = s.our_hp - s.their_damage_per_turn]

\* one iteration of the loop; broke is the break statement
TurnBody(s) ==
    LET t == [s EXCEPT !.turns = s.turns + 1]
    IN  IF s.we_outspeed
        THEN LET hit == [t EXCEPT !.their_hp = t.their_hp - t.our_damage_per_turn]
             IN  IF hit.their_hp <= 0
                 THEN [hit EXCEPT !.pc = "outcome"]
                 ELSE [hit EXCEPT !.our_hp = hit.our_hp - hit.their_damage_per_turn]
        ELSE LET hit == [t EXCEPT !.our_hp = t.our_hp - t.their_damage_per_turn]
             IN  IF hit.our_hp <= 0
                 THEN [hit EXCEPT !.pc = "outcome"]
                 ELSE [hit EXCEPT !.their_hp = hit.their_hp - hit.our_damage_per_turn]

\* the returned tuple (outcome, our_remaining_hp, their_remaining_hp, turns)
FightOutcome(our_hp, their_hp, turns) ==
    IF our_hp > 0 /\ their_hp <= 0
    THEN [called |-> TRUE, outcome |-> "win", our_remaining_hp |-> Max0(our_hp),
          their_remaining_hp |-> 0, turns |-> turns]
    ELSE IF their_hp > 0 /\ our_hp <= 0
    THEN [called |-> TRUE, outcome |-> "lose", our_remaining_hp |-> 0,
          their_remaining_hp |-> Max0(their_hp), turns |-> turns]
    ELSE [called |-> TRUE, outcome |-> "draw", our_remaining_hp |-> Max0(our_hp),
          their_remaining_hp |-> Max0(their_hp), turns |-> turns]

(***************************************************************************)
(* speed/calculator.py: SpeedCalculator.calculate_speed_matchup.  An item  *)
(* is a text: "choicescarf" is <<"choice", "scarf">>, the placeholder of   *)
(* an unrevealed item, "unknown_item", is <<"unknown", "_", "item">>.      *)
(* int(speed * m) is the floor of the exact product.                       *)
(***************************************************************************)
\* SPEED_STAGE_MULTIPLIERS.get(speed_stage, 1.0), as a fraction
StageMultiplier(stage) ==
    IF stage \in 0..6 THEN [num |-> 2 + stage, den |-> 2]
    ELSE IF stage \in (-6)..(-1) THEN [num |-> 2, den |-> 2 - stage]
    ELSE [num |-> 1, den |-> 1]

_apply_speed_modifiers(base_speed, pokemon, tailwind) ==
    LET m == StageMultiplier(pokemon.boosts_spe)
        staged == (base_speed * m.num) \div m.den
        status == IF pokemon.status = "PAR" THEN staged \div 2 ELSE staged
    IN  IF tailwind THEN status * 2 ELSE status

\* any('scarf' in item.lower() for item in possible_items)
AnyScarf(possible_items) ==
    \E i \in 1..Len(possible_items) : Contains(Lower(possible_items[i]), <<"scarf">>)

\* randbats_data is None, or get_possible_items(species) gives pool.items
_could_have_choice_scarf(pokemon, pool) ==
    IF Truthy(pokemon.item) /\ Lower(pokemon.item.text) \notin {<< >>, <<"unknown">>}
    THEN \/ Contains(Lower(pokemon.item.text), <<"scarf">>)
         \/ Contains(Remove(Lower(pokemon.item.text), " "), <<"choice", "scarf">>)
    ELSE IF pool.has_randbats_data /\ pool.items # << >>
    THEN AnyScarf(pool.items)
    ELSE TRUE

\* a comparison that takes no notice of Trick Room
FasterMovesFirst(trick_room_active, ours, theirs) == ours > theirs

\* lines 112-117: who moves first
Outspeeds(trick_room_active, ours, theirs) ==
    IF trick_room_active THEN ours < theirs ELSE ours > theirs

calculate_speed_matchup(b) ==
    LET our_modified == _apply_speed_modifiers(b.ours.spe, b.ours, b.tailwind_active)
        their_modified ==
            _apply_speed_modifiers(b.theirs.spe, b.theirs, b.opponent_tailwind_active)
        could_have_scarf == _could_have_choice_scarf(b.theirs, b.pool)
        their_scarf_speed ==
            IF could_have_scarf THEN Some((their_modified * 3) \div 2) ELSE None
        we_outspeed == Outspeeds(b.trick_room_active, our_modified, their_modified)
    IN  [called |-> TRUE,
         our_speed |-> our_modified,
         their_speed |-> their_modified,
         their_speed_with_scarf |-> their_scarf_speed,
         we_outspeed |-> we_outspeed,
         we_outspeed_if_they_scarf |->
            IF ~their_scarf_speed.isNone /\ their_scarf_speed.text # 0
            THEN Outspeeds(b.trick_room_active, our_modified, their_scarf_speed.text)
            ELSE we_outspeed,
         trick_room_active |-> b.trick_room_active]

(***************************************************************************)
(* agent/nodes/best_moves.py: _rank_moves.  Percentages are integers and a *)
(* score is kept in units of 1/Scale, as for the switches.  A justification*)
(* is the list of its reasons, which the code joins with "; ".             *)
(***************************************************************************)
\* a scoring that would give a knock-out no bonus
NoKoBonus(ko_chance) == 0

\* lines 214-222: the bonus of a knock-out, in percent
KoBonus(ko_chance) ==
    IF ko_chance.kind = "guaranteed" THEN 200
    ELSE IF ko_chance.kind = "percent" THEN ko_chance.percent
    ELSE 0

\* the first DamageResult of the matchup for this move
ResultFor(matchup, move_id) ==
    IF matchup.isNone THEN None
    ELSE LET hits == {i \in 1..Len(matchup.text.results) :
                         matchup.text.results[i].move = move_id}
         IN  IF hits = {} THEN None ELSE Some(matchup.text.results[Min(hits)])

\* "guaranteed" in d.lower() or "100%" in d, for the bench line
\* "{defender}: {min:.0f}-{max:.0f}%{ko_str}"
BenchLineShowsKo(result) ==
    \/ result.ko_chance.kind = "guaranteed"
    \/ result.ko_chance.kind = "percent" /\ result.ko_chance.percent = 100
    \/ result.max_percent % 1000 = 100

_generate_move_reasoning(move, active_damage, ko_chance, accuracy, bench_damages) ==
    LET ko == IF ko_chance.kind = "guaranteed" THEN <<"Guaranteed KO">>
              ELSE IF ko_chance.kind = "percent" THEN <<"chance to KO">>
              ELSE IF active_damage.isNone THEN << >>
              ELSE LET avg2 == active_damage.text.min_percent
                                  + active_damage.text.max_percent
                   IN  IF avg2 >= 100 THEN <<"High damage">>
                       ELSE IF avg2 >= 50 THEN <<"Moderate damage">>
                       ELSE <<"Low damage">>
        acc == IF accuracy < 100 THEN <<"accuracy">> ELSE << >>
        ko_switches == SelectSeq(bench_damages, BenchLineShowsKo)
        bench == IF ko_switches # << >> THEN <<"KOs bench Pokemon">> ELSE << >>
        prio == IF move.priority > 0 THEN <<"priority">>
                ELSE IF move.priority < 0 THEN <<"priority (moves last)">>
                ELSE << >>
        reasons == ko \o acc \o bench \o prio
    IN  IF reasons # << >> THEN reasons ELSE <<"Standard option">>

RECURSIVE BenchDamages(_, _)
\* lines 193-201: the first figure of this move in each bench matchup
BenchDamages(our_vs_bench, move_id) ==
    IF our_vs_bench = << >> THEN << >>
    ELSE LET r == ResultFor(Some(Head(our_vs_bench)), move_id)
         IN  (IF r.isNone THEN << >> ELSE <<r.text>>)
                \o BenchDamages(Tail(our_vs_bench), move_id)

_calculate_move_score(move, our_vs_active, our_vs_bench) ==
    LET accuracy == IF move.accuracy # 0 THEN move.accuracy ELSE 100
        active_damage == ResultFor(our_vs_active, move.id)
        ko_chance == IF active_damage.isNone THEN NoKo
                     ELSE active_damage.text.ko_chance
        bench_damages == BenchDamages(our_vs_bench, move.id)
        \* avg_damage plus the KO bonus, in units of 1/Scale
        plain == IF active_damage.isNone THEN 0
                 ELSE AverageDamage(active_damage.text) + Scale * KoBonus(ko_chance)
    IN  [move |-> move.id,
         damage_to_active |-> active_damage,
         damage_to_switches |-> SubSeq(bench_damages, 1, Min({3, Len(bench_damages)})),
         accuracy |-> accuracy,
         reasoning |-> _generate_move_reasoning(move, active_damage, ko_chance,
                                                accuracy, bench_damages),
         score |-> IF accuracy < 100 THEN (plain * accuracy) \div 100 ELSE plain]

_rank_moves(r) ==
    LET move_scores == [i \in 1..Len(r.available_moves) |->
                           _calculate_move_score(r.available_moves[i],
                                                 r.our_vs_active, r.our_vs_bench)]
        sorted == SortByScore(move_scores)
    IN  [i \in 1..Len(sorted) |-> sorted[i] @@ [rank |-> i]]

\* _check_choice_lock: a choice item and a single legal move
_check_choice_lock(b) ==
    LET is_choice ==
            /\ Truthy(b.item)
            /\ Remove(Lower(b.item.text), " ")
                  \in {<<"choice", "band">>, <<"choice", "scarf">>, <<"choice", "specs">>}
    IN  IF is_choice /\ Len(b.available_moves) = 1
        THEN [choice_locked |-> TRUE, locked_move |-> Some(b.available_moves[1].id)]
        ELSE [choice_locked |-> FALSE, locked_move |-> None]

\* _build_choice_locked_result: the locked move as the only entry
_build_choice_locked_result(locked_move, our_vs_active) ==
    <<[move |-> locked_move, rank |-> 1,
       damage_to_active |-> ResultFor(our_vs_active, locked_move),
       damage_to_switches |-> << >>, accuracy |-> 100,
       reasoning |-> <<"Choice locked - only option available">>]>>

\* _build_summary: the sentence about the best move, then one for each of
\* the next two moves that also KOs and is more accurate
_build_summary(ranked_list) ==
    IF ranked_list = << >> THEN <<"No moves available.">>
    ELSE LET best == ranked_list[1]
             lead == IF "Guaranteed KO" \in Range(best.reasoning)
                     THEN <<"is a guaranteed KO.">>
                     ELSE IF "chance to KO" \in Range(best.reasoning)
                     THEN <<"has a chance to KO">>
                     ELSE <<"deals">>
             also == SelectSeq(SubSeq(ranked_list, 2, Min({3, Len(ranked_list)})),
                               LAMBDA e : /\ "Guaranteed KO" \in Range(e.reasoning)
                                          /\ e.accuracy > best.accuracy)
         IN  lead \o [i \in 1..Len(also) |-> "also KOs with better accuracy."]

\* best_moves_node: the value it returns for "best_moves", with the number
\* of calls of _rank_moves it made
best_moves_result(b) ==
    IF ~b.active_pokemon
    THEN [best_moves |-> "None", moves |-> << >>, summary |-> << >>, rank_calls |-> 0]
    ELSE LET lock == _check_choice_lock(b)
         IN  IF lock.choice_locked /\ Truthy(lock.locked_move)
             THEN IF b.damage_calc_raw_is_none
                  THEN \* damage_calc_raw.get raises; the node catches it
                       [best_moves |-> "None", moves |-> << >>, summary |-> << >>,
                        rank_calls |-> 0]
                  ELSE [best_moves |-> "choice_locked",
                        moves |-> _build_choice_locked_result(lock.locked_move.text,
                                                              b.our_vs_active),
                        summary |-> <<"Choice locked into">>, rank_calls |-> 0]
             ELSE IF b.damage_calc_raw_is_none
                  THEN \* raised inside _rank_moves
                       [best_moves |-> "None", moves |-> << >>, summary |-> << >>,
                        rank_calls |-> 1]
                  ELSE LET ranked_list == _rank_moves(b)
                       IN  [best_moves |-> "ranked", moves |-> ranked_list,
                            summary |-> _build_summary(ranked_list), rank_calls |-> 1]

(***************************************************************************)
(* The per-turn battle graph: stages, the state keys, the stage nodes.     *)
(***************************************************************************)
Prefix == {"format_state", "fetch_sets"}
Phase1 == {"damage", "speed", "type_matchups", "effects", "matchup", "strategy"}
Prediction == {"expected_move"}
Phase2 == {"best_moves", "best_switches", "tera"}
Suffix == {"decide", "parse", "battle_memory"}
Stages == Prefix \cup Phase1 \cup Prediction \cup Phase2 \cup Suffix

\* the keys of AgentState that the battle graph touches
Keys == {"formatted_state", "tool_results", "llm_response", "reasoning",
         "action_type", "action_target", "error", "opponent_sets",
         "damage_calculations", "damage_calc_raw", "speed_analysis",
         "speed_calc_raw", "type_matchups", "effects_analysis",
         "strategy_context", "matchup_results", "expected_opponent_action",
         "best_moves", "best_switches", "tera_analysis", "battle_log",
         "battle_analysis", "revealed_sets"}

\* _build_battle_state: the keys of the initial state and their values
InitialKeys == {"formatted_state", "tool_results", "llm_response", "reasoning",
                "action_type", "action_target", "error", "opponent_sets",
                "damage_calculations", "damage_calc_raw", "speed_analysis",
                "speed_calc_raw", "type_matchups", "effects_analysis",
                "strategy_context"}

InitialState ==
    [k \in Keys |->
        IF k \notin InitialKeys THEN "Absent"
        ELSE IF k = "formatted_state" THEN "Text"
        ELSE IF k \in {"tool_results", "opponent_sets"} THEN "{}"
        ELSE IF k = "llm_response" THEN ""
        ELSE "None"]

Present(st) == {k \in Keys : st[k] # "Absent"}

\* the empty results a stage leaves when it has nothing usable
IsSentinel(v) == v \in {"None", "{}"}

\* what a node hands back: the update it returns, the keys it changed in
\* place, and whether an exception left it
Returns(update, inplace) == [update |-> update, mutated |-> inplace, raised |-> FALSE]
WholeState(st) == [k \in Present(st) |-> st[k]]

format_state_node(st, outcome) == Returns(WholeState(st), {})

fetch_opponent_sets_node(st, outcome) ==
    Returns("opponent_sets" :> (IF outcome = "ok" THEN "Sets" ELSE "{}"), {})

calculate_damage_node(st, outcome) ==
    IF outcome = "ok"
    THEN Returns("damage_calculations" :> "Text" @@ "damage_calc_raw" :> "Dmg", {})
    ELSE Returns("damage_calculations" :> "None" @@ "damage_calc_raw" :> "None", {})

calculate_speed_node(st, outcome) ==
    IF outcome = "ok"
    THEN Returns("speed_analysis" :> "Text" @@ "speed_calc_raw" :> "Spd", {})
    ELSE Returns("speed_analysis" :> "None" @@ "speed_calc_raw" :> "None", {})

get_type_matchups_node(st, outcome) ==
    Returns("type_matchups" :> (IF outcome = "ok" THEN "Text" ELSE "None"), {})

get_effects_node(st, outcome) ==
    Returns("effects_analysis" :> (IF outcome = "ok" THEN "Text" ELSE "None"), {})

\* calculate_all_matchups: every pair is computed inside a try; a pair whose
\* computation raises (as _get_best_damage does on damage_calc_raw = None) is
\* left out, and _we_outspeed uses speed_calc_raw when it is there
calculate_matchup_node(st, outcome) ==
    Returns("matchup_results" :>
                (IF outcome # "ok" \/ st["damage_calc_raw"] = "None" THEN "{}"
                 ELSE IF st["speed_calc_raw"] = "None" THEN "EstimatedSpeed"
                 ELSE "CalculatedSpeed"),
            {})

\* lookup_strategy_node assigns into the state it was given and returns that
\* whole state; a generic exception is recorded inside tool_results
lookup_strategy_node(st, outcome) ==
    LET context == IF outcome = "ok" THEN "Text" ELSE "None"
        changed == [k \in Keys |->
                       IF k = "strategy_context" THEN context
                       ELSE IF k = "tool_results" /\ outcome = "raise"
                       THEN "{strategy_error}"
                       ELSE st[k]]
    IN  Returns(WholeState(changed),
                IF outcome = "raise" THEN {"strategy_context", "tool_results"}
                ELSE {"strategy_context"})

\* expected_move_node: _build_prediction_context raises on damage_calc_raw =
\* None before the LLM is asked; every exception is caught
expected_move_node(st, outcome) ==
    Returns("expected_opponent_action" :>
                (IF outcome = "ok" /\ st["damage_calc_raw"] # "None"
                 THEN "Prediction" ELSE "None"),
            {})

\* best_moves_node without its try/except
BestMovesUncaught(st, outcome) ==
    IF outcome = "ok" /\ st["damage_calc_raw"] # "None"
    THEN [update |-> "best_moves" :> "Ranked", mutated |-> {}, raised |-> FALSE]
    ELSE [update |-> << >>, mutated |-> {}, raised |-> TRUE]

best_moves_node(st, outcome) ==
    Returns("best_moves" :>
                (IF outcome = "ok" /\ st["damage_calc_raw"] # "None"
                 THEN "Ranked" ELSE "None"),
            {})

\* best_switches_node: without switches the empty ranking is returned before
\* anything is computed
best_switches_node(st, outcome) ==
    Returns("best_switches" :>
                (IF outcome = "no_switches" THEN "NoSwitches"
                 ELSE IF outcome # "ok" \/ st["damage_calc_raw"] = "None" THEN "None"
                 ELSE IF st["expected_opponent_action"] = "Prediction"
                 THEN "RankedAgainstPrediction"
                 ELSE "RankedWorstCase"),
            {})

tera_node(st, outcome) ==
    Returns("tera_analysis" :> (IF outcome = "ok" THEN "Tera" ELSE "None"), {})

decide_action_node(st, outcome) ==
    IF outcome = "ok" THEN Returns("llm_response" :> "Response", {})
    ELSE Returns("llm_response" :> "Fallback" @@ "error" :> "Decision error", {})

\* parse_decision_node assigns into the state it was given and returns it
ParseDecisionStage(st, outcome) ==
    LET changed == [k \in Keys |->
                       IF k \in {"reasoning", "action_type", "action_target"}
                       THEN "Parsed" ELSE st[k]]
    IN  Returns(WholeState(changed), {"reasoning", "action_type", "action_target"})

battle_memory_node(st, outcome) ==
    IF outcome = "ok"
    THEN Returns("battle_log" :> "Log" @@ "battle_analysis" :> "Analysis"
                    @@ "revealed_sets" :> "Revealed", {})
    ELSE Returns(<< >>, {})

RunNode(s, st, outcome) ==
    CASE s = "format_state" -> format_state_node(st, outcome)
      [] s = "fetch_sets" -> fetch_opponent_sets_node(st, outcome)
      [] s = "damage" -> calculate_damage_node(st, outcome)
      [] s = "speed" -> calculate_speed_node(st, outcome)
      [] s = "type_matchups" -> get_type_matchups_node(st, outcome)
      [] s = "effects" -> get_effects_node(st, outcome)
      [] s = "matchup" -> calculate_matchup_node(st, outcome)
      [] s = "strategy" -> lookup_strategy_node(st, outcome)
      [] s = "expected_move" -> expected_move_node(st, outcome)
      [] s = "best_moves" -> best_moves_node(st, outcome)
      [] s = "best_switches" -> best_switches_node(st, outcome)
      [] s = "tera" -> tera_node(st, outcome)
      [] s = "decide" -> decide_action_node(st, outcome)
      [] s = "parse" -> ParseDecisionStage(st, outcome)
      [] s = "battle_memory" -> battle_memory_node(st, outcome)

(***************************************************************************)
(* The battle graph's orchestration.  create_battle_graph is not among the *)
(* sources; the edges below are the documented topology: prefix, first     *)
(* fan-out, prediction, second fan-out, suffix.                            *)
(***************************************************************************)
\* the topology with the decision wired to the prediction instead of to the
\* second fan-out
PredsWithoutSecondJoin(s) ==
    CASE s = "format_state" -> {}
      [] s = "fetch_sets" -> {"format_state"}
      [] s \in Phase1 -> {"fetch_sets"}
      [] s = "expected_move" -> Phase1
      [] s \in Phase2 -> {"expected_move"}
      [] s = "decide" -> {"expected_move"}
      [] s = "parse" -> {"decide"}
      [] s = "battle_memory" -> {"parse"}

Preds(s) ==
    CASE s = "format_state" -> {}
      [] s = "fetch_sets" -> {"format_state"}
      [] s \in Phase1 -> {"fetch_sets"}
      [] s = "expected_move" -> Phase1
      [] s \in Phase2 -> {"expected_move"}
      [] s = "decide" -> Phase2
      [] s = "parse" -> {"decide"}
      [] s = "battle_memory" -> {"parse"}

\* the state keys a stage node reads besides the battle snapshot
Reads(s) ==
    CASE s = "matchup" -> {"damage_calc_raw", "speed_calc_raw", "opponent_sets"}
      [] s \in {"strategy", "format_state", "parse"} -> Keys
      [] s \in {"speed", "effects"} -> {"opponent_sets"}
      [] s = "expected_move" -> {"opponent_sets", "damage_calc_raw", "speed_calc_raw"}
      [] s = "best_moves" -> {"damage_calc_raw", "opponent_sets"}
      [] s = "best_switches" -> {"expected_opponent_action", "matchup_results",
                                 "damage_calc_raw"}
      [] s = "decide" -> {"formatted_state", "speed_analysis", "speed_calc_raw",
                          "expected_opponent_action", "best_moves",
                          "best_switches", "battle_analysis"}
      [] s = "battle_memory" -> {"battle_log", "revealed_sets", "opponent_sets",
                                 "battle_analysis", "action_type", "action_target"}
      [] OTHER -> {}

\* The two stages of the first fan-out that read keys other stages of that
\* fan-out write.  Their start (when they read) and their return (when their
\* update is merged) are separate steps; a stage that reads nothing a
\* concurrent stage writes behaves the same whenever it starts, so it is one
\* step.
TwoStep == {"matchup", "strategy"}

\* the state as a stage sees it: the keys it reads
ViewOf(s, st) == [k \in Reads(s) |-> st[k]]
NoView == << >>

\* the orchestrator merges a returned update into the shared state key by key
Merge(st, update) ==
    [k \in Keys |-> IF k \in DOMAIN update THEN update[k] ELSE st[k]]

\* what a stage can meet instead of a successful computation: an exception,
\* an empty result, a missing optional package, a battle without switches
FailureModes(s) ==
    CASE s \in {"damage", "speed"} -> {"raise", "empty"}
      [] s = "strategy" -> {"raise", "import_error", "empty"}
      [] s = "best_switches" -> {"raise", "no_switches"}
      [] s \in {"format_state", "parse"} -> {}
      [] OTHER -> {"raise"}

MaxFailures == 1

Environments ==
    UNION {{[s \in Stages |-> IF s \in F THEN k[s] ELSE "ok"] :
               k \in {m \in [F -> {"raise", "import_error", "empty", "no_switches"}] :
                         \A s \in F : m[s] \in FailureModes(s)}} :
              F \in {G \in SUBSET Stages : Cardinality(G) <= MaxFailures}}

GraphIdle ==
    /\ env = [s \in Stages |-> "ok"]
    /\ gstate = InitialState
    /\ done = {}
    /\ running = {}
    /\ view = [s \in Stages |-> NoView]
    /\ returned = [s \in Stages |-> << >>]
    /\ mutated = [s \in Stages |-> {}]
    /\ escaped = FALSE

TurnIdle ==
    /\ battle = [available_moves |-> << >>, available_switches |-> << >>,
                 turn |-> 1, opponent_active |-> FALSE]
    /\ damage_calc_raw = "None"
    /\ pc = "idle"
    /\ expected_opponent_action = "None"
    /\ llm_response = Some(<< >>)
    /\ reasoning = None
    /\ action_type = "None"
    /\ action_target = None
    /\ error = "None"
    /\ battle_analysis = "None"
    /\ team_analysis = "None"
    /\ llm_calls = {}
    /\ llm_errors = {}
    /\ order = [kind |-> "none", name |-> << >>]
    /\ exception = FALSE

InitGraph ==
    /\ TurnIdle
    /\ BeliefIdle
    /\ EngineIdle
    /\ env \in Environments
    /\ gstate = InitialState
    /\ done = {}
    /\ running = {}
    /\ view = [s \in Stages |-> NoView]
    /\ returned = [s \in Stages |-> << >>]
    /\ mutated = [s \in Stages |-> {}]
    /\ escaped = FALSE

Ready(s) == s \notin done /\ s \notin running /\ Preds(s) \subseteq done

\* a stage's return: its update is merged and its exception, if any, escapes
Complete(s, r) ==
    /\ gstate' = Merge(gstate, r.update)
    /\ returned' = [returned EXCEPT ![s] = r.update]
    /\ mutated' = [mutated EXCEPT ![s] = r.mutated]
    /\ escaped' = (escaped \/ r.raised)
    /\ done' = done \cup {s}

\* a one-step stage runs on the shared state as it is now
RunStage(s) ==
    /\ s \notin TwoStep
    /\ Ready(s)
    /\ view' = [view EXCEPT ![s] = ViewOf(s, gstate)]
    /\ Complete(s, RunNode(s, ViewOf(s, gstate), env[s]))
    /\ UNCHANGED <<env, running>>
    /\ UNCHANGED <<turnVars, beliefVars, engineVars, toolVars>>

StartStage(s) ==
    /\ s \in TwoStep
    /\ Ready(s)
    /\ running' = running \cup {s}
    /\ view' = [view EXCEPT ![s] = ViewOf(s, gstate)]
    /\ UNCHANGED <<env, gstate, done, returned, mutated, escaped>>
    /\ UNCHANGED <<turnVars, beliefVars, engineVars, toolVars>>

FinishStage(s) ==
    /\ s \in running
    /\ Complete(s, RunNode(s, view[s], env[s]))
    /\ running' = running \ {s}
    /\ UNCHANGED <<env, view>>
    /\ UNCHANGED <<turnVars, beliefVars, engineVars, toolVars>>

NextGraph ==
    \/ \E s \in Stages : RunStage(s)
    \/ \E s \in TwoStep : StartStage(s)
    \/ \E s \in TwoStep : FinishStage(s)

SpecGraph == InitGraph /\ [][NextGraph]_vars

(***************************************************************************)
(* One turn: choose_move from the snapshot to the order sent to the server *)
(***************************************************************************)
MaxMoves == 2
MaxSwitches == 2

\* move ids and species names, with the shapes the fallback text has to survive
MoveIds == {<<"x">>, <<"switch", "x">>, <<"x", "-", "y">>,
            <<"switch", "-", "x">>, <<"x", "(", "y", ")">>}
SpeciesNames == {<<"Y">>, <<"X", "-", "y">>, <<"switch", "x">>}

Snapshots ==
    [available_moves : DistinctSeqs(MoveIds, MaxMoves),
     available_switches : DistinctSeqs(SpeciesNames, MaxSwitches),
     turn : {1, 2},
     opponent_active : BOOLEAN]

\* texts the decision LLM may answer with
DecisionResponses ==
    {<<"REASONING:", " ", "x", "\n", "ACTION:", " ", "X", " ", "-", " ", "y">>,
     <<"ACTION:", " ", "Switch", " ", "to", " ", "y">>,
     <<"ACTION:", " ", "switch">>,
     <<"x", " ", "y">>}

NoOrder == [kind |-> "none", name |-> << >>]

InitTurn ==
    /\ GraphIdle
    /\ BeliefIdle
    /\ EngineIdle
    /\ battle \in Snapshots
    /\ damage_calc_raw \in {"None", "Dmg"}
    /\ pc = "team_analysis"
    /\ expected_opponent_action = "None"
    /\ llm_response = Some(<< >>)
    /\ reasoning = None
    /\ action_type = "None"
    /\ action_target = None
    /\ error = "None"
    /\ battle_analysis = "None"
    /\ team_analysis = "None"
    /\ llm_calls = {}
    /\ llm_errors = {}
    /\ order = NoOrder
    /\ exception = FALSE

\* choose_move, turn 1 only: _run_team_analysis
RunTeamAnalysis ==
    /\ pc = "team_analysis"
    /\ pc' = "expected_move"
    /\ UNCHANGED <<graphVars, beliefVars, engineVars, toolVars>>
    /\ IF battle.turn = 1
       THEN \E outcome \in {"raise", "text"} :
               /\ llm_calls' = llm_calls \cup {"team_analysis"}
               /\ llm_errors' = IF outcome = "raise"
                                THEN llm_errors \cup {"team_analysis"}
                                ELSE llm_errors
               /\ team_analysis' = IF outcome = "text" THEN "Analysis"
                                   ELSE team_analysis
       ELSE UNCHANGED <<llm_calls, llm_errors, team_analysis>>
    /\ UNCHANGED <<battle, damage_calc_raw, expected_opponent_action,
                   llm_response, reasoning, action_type, action_target, error,
                   battle_analysis, order, exception>>

\* expected_move_node: no opposing active -> None; the prompt context reads
\* damage_calc_raw.get(...), which raises on None inside the try
ExpectedMove ==
    /\ pc = "expected_move"
    /\ pc' = "decide"
    /\ UNCHANGED <<graphVars, beliefVars, engineVars, toolVars>>
    /\ IF ~battle.opponent_active \/ damage_calc_raw = "None"
       THEN /\ expected_opponent_action' = "None"
            /\ UNCHANGED <<llm_calls, llm_errors>>
       ELSE \E raised \in BOOLEAN :
               /\ llm_calls' = llm_calls \cup {"prediction"}
               /\ llm_errors' = IF raised THEN llm_errors \cup {"prediction"}
                                ELSE llm_errors
               /\ expected_opponent_action' = IF raised THEN "None"
                                              ELSE "Prediction"
    /\ UNCHANGED <<battle, damage_calc_raw, llm_response, reasoning,
                   action_type, action_target, error, battle_analysis,
                   team_analysis, order, exception>>

\* decide_action_node
DecideAction ==
    /\ pc = "decide"
    /\ pc' = "parse"
    /\ UNCHANGED <<graphVars, beliefVars, engineVars, toolVars>>
    /\ llm_calls' = llm_calls \cup {"decision"}
    /\ \/ /\ llm_errors' = llm_errors \cup {"decision"}
          /\ llm_response' = Some(_create_fallback_response(battle))
          /\ error' = "Decision error"
       \/ \E response \in DecisionResponses :
             /\ llm_response' = Some(response)
             /\ UNCHANGED <<llm_errors, error>>
    /\ UNCHANGED <<battle, damage_calc_raw, expected_opponent_action, reasoning,
                   action_type, action_target, battle_analysis, team_analysis,
                   order, exception>>

\* parse_decision_node; re.search raises TypeError when llm_response is None,
\* and nothing between the node and the caller of choose_move catches it
ParseDecision ==
    /\ pc = "parse"
    /\ UNCHANGED <<graphVars, beliefVars, engineVars, toolVars>>
    /\ IF llm_response.isNone
       THEN /\ pc' = "raised"
            /\ exception' = TRUE
            /\ UNCHANGED <<reasoning, action_type, action_target, error>>
       ELSE LET r == parse_decision_node(llm_response.text, error)
            IN  /\ pc' = "battle_memory"
                /\ reasoning' = r.reasoning
                /\ action_type' = r.action_type
                /\ action_target' = r.action_target
                /\ error' = r.error
                /\ UNCHANGED exception
    /\ UNCHANGED <<battle, damage_calc_raw, expected_opponent_action,
                   llm_response, battle_analysis, team_analysis, llm_calls,
                   llm_errors, order>>

\* battle_memory_node: _run_analysis skips the LLM on turn 1 and keeps the
\* previous analysis (the empty default) when the call raises
BattleMemory ==
    /\ pc = "battle_memory"
    /\ pc' = "chat"
    /\ UNCHANGED <<graphVars, beliefVars, engineVars, toolVars>>
    /\ IF battle.turn <= 1
       THEN /\ battle_analysis' = "None"
            /\ UNCHANGED <<llm_calls, llm_errors>>
       ELSE \E raised \in BOOLEAN :
               /\ llm_calls' = llm_calls \cup {"memory"}
               /\ llm_errors' = IF raised THEN llm_errors \cup {"memory"}
                                ELSE llm_errors
               /\ battle_analysis' = IF raised THEN "Empty" ELSE "Analysis"
    /\ UNCHANGED <<battle, damage_calc_raw, expected_opponent_action,
                   llm_response, reasoning, action_type, action_target, error,
                   team_analysis, order, exception>>

\* _send_reasoning_chat: a failed send is logged and swallowed
SendReasoningChat ==
    /\ pc = "chat"
    /\ pc' = "execute"
    /\ UNCHANGED <<graphVars, beliefVars, engineVars, toolVars>>
    /\ UNCHANGED <<battle, damage_calc_raw, expected_opponent_action,
                   llm_response, reasoning, action_type, action_target, error,
                   battle_analysis, team_analysis, llm_calls, llm_errors, order,
                   exception>>

\* return self._execute_action(battle, result)
ExecuteAction ==
    /\ pc = "execute"
    /\ pc' = "finished"
    /\ UNCHANGED <<graphVars, beliefVars, engineVars, toolVars>>
    /\ order' = _execute_action(battle, action_type, action_target)
    /\ exception' = (order'.kind = "raise")
    /\ UNCHANGED <<battle, damage_calc_raw, expected_opponent_action,
                   llm_response, reasoning, action_type, action_target, error,
                   battle_analysis, team_analysis, llm_calls, llm_errors>>

NextTurn ==
    \/ RunTeamAnalysis
    \/ ExpectedMove
    \/ DecideAction
    \/ ParseDecision
    \/ BattleMemory
    \/ SendReasoningChat
    \/ ExecuteAction

SpecTurn == InitTurn /\ [][NextTurn]_vars

\* --- SpecExecute: _execute_action on every decision the parser can leave --
\* action_type as parse_decision_node sets it, or as another writer of the
\* state left it
ActionTypes == {"move", "switch", "None", "tera"}

\* action_target as parse_decision_node leaves it, stripped and lower-cased:
\* None, the empty text, names of legal options, a name of none of them, and
\* a text whose first word is part of a move id
ActionTargets ==
    {None, Some(<< >>), Some(<<"x">>), Some(<<"y">>), Some(<<"x", "-", "y">>),
     Some(<<"struggle">>), Some(<<"x", " ", "struggle">>)}

InitExecute ==
    /\ GraphIdle
    /\ BeliefIdle
    /\ EngineIdle
    /\ battle \in {b \in Snapshots : b.turn = 1 /\ b.opponent_active}
    /\ damage_calc_raw = "None"
    /\ pc = "execute"
    /\ expected_opponent_action = "None"
    /\ llm_response = Some(<< >>)
    /\ reasoning = None
    /\ action_type \in ActionTypes
    /\ action_target \in ActionTargets
    /\ error = "None"
    /\ battle_analysis = "None"
    /\ team_analysis = "None"
    /\ llm_calls = {}
    /\ llm_errors = {}
    /\ order = NoOrder
    /\ exception = FALSE

NextExecute == ExecuteAction

SpecExecute == InitExecute /\ [][NextExecute]_vars

\* the belief map with its entries read through the heap h
Deref(map, h) == [species \in DOMAIN map |-> h[map[species]]]

InitBelief ==
    /\ TurnIdle
    /\ GraphIdle
    /\ EngineIdle
    /\ tracking \in {"memory", "teams"}
    /\ revealed_sets = << >>
    /\ heap = << >>
    /\ our_team = << >>
    /\ their_team = << >>

\* battle_memory_node: revealed_sets = _update_revealed_sets(battle,
\* state.get("revealed_sets", {}), state.get("opponent_sets", {}))
UpdateRevealedSets ==
    /\ tracking = "memory"
    /\ \E opponent_team \in OpponentTeams, opponent_sets \in OpponentSetsChoices :
          LET r == _update_revealed_sets(opponent_team, revealed_sets,
                                         opponent_sets, heap)
          IN  /\ revealed_sets' = r.revealed
              /\ heap' = r.heap
    /\ UNCHANGED <<tracking, our_team, their_team>>
    /\ UNCHANGED <<turnVars, graphVars, engineVars, toolVars>>

\* TeamsState.update_from_battle(battle)
UpdateFromBattle ==
    /\ tracking = "teams"
    /\ \E our \in OurTeams, opponent_team \in OpponentTeams :
          /\ our_team' = _update_our_team(our_team, our)
          /\ their_team' = _update_their_team(their_team, opponent_team)
    /\ UNCHANGED <<tracking, revealed_sets, heap>>
    /\ UNCHANGED <<turnVars, graphVars, engineVars, toolVars>>

NextBelief ==
    \/ UpdateRevealedSets
    \/ UpdateFromBattle

SpecBelief == InitBelief /\ [][NextBelief]_vars

(***************************************************************************)
(* parse_decision_node on the texts the decision LLM may return            *)
(* (SpecParse): the turn starts at the parsing stage with llm_response     *)
(* drawn from the texts below, or None.                                    *)
(***************************************************************************)
MaxBody == 2

\* sequences over S of length 1..n
SeqsUpTo(S, n) == UNION {[1..k -> S] : k \in 1..n}

\* free text of a reasoning; "Long" is a 280-character word and only starts
\* a text, so that the cut at 280 characters falls between two tokens
ReasoningTokens == {"x", " ", "\n", "action:", "Long"}
ReasoningBodies ==
    {b \in SeqsUpTo(ReasoningTokens, MaxBody) :
        \A i \in 2..Len(b) : b[i] # "Long"}

\* what precedes the action line: nothing, free text, or a marked reasoning
ReasoningParts ==
    {<< >>, <<"REASONING:">>}
        \cup ReasoningBodies
        \cup {<<"REASONING:", " ">> \o b : b \in ReasoningBodies}

\* move names and species names as the LLM writes them
MoveNames == {<<"X">>, <<"X", " ", "y">>, <<"X", " ", "Switch">>}
Asides == {<< >>, <<" ", "(", "y", ")">>, <<" ", "-", " ", "y">>}
PokemonNames == {<<"Y">>, <<"X", "-", "y">>, <<"X", " ", "y">>}

MoveTexts == {n \o a : n \in MoveNames, a \in Asides}
SwitchTexts ==
    {<<"Switch", " ", "to", " ">> \o n : n \in PokemonNames}
        \cup {<<"switch", " ">> \o n : n \in PokemonNames}
        \cup {<<"Switch">>}

\* the action line: absent, a bare marker, or a marker and an action text
ActionParts ==
    {<< >>, <<"ACTION:">>}
        \cup {<<"ACTION:", " ">> \o a : a \in MoveTexts \cup SwitchTexts}

\* the texts of the decision LLM
ResponseTexts ==
    {IF r = << >> \/ a = << >> THEN r \o a ELSE r \o <<"\n">> \o a :
        r \in ReasoningParts, a \in ActionParts}

\* response.choices[0].message.content: a text, or None
LlmContents == {None} \cup {Some(t) : t \in ResponseTexts}

InitParse ==
    /\ GraphIdle
    /\ BeliefIdle
    /\ EngineIdle
    /\ battle = [available_moves |-> << >>, available_switches |-> << >>,
                 turn |-> 1, opponent_active |-> FALSE]
    /\ damage_calc_raw = "None"
    /\ pc = "parse"
    /\ expected_opponent_action = "None"
    /\ llm_response \in LlmContents
    /\ reasoning = None
    /\ action_type = "None"
    /\ action_target = None
    /\ error = "None"
    /\ battle_analysis = "None"
    /\ team_analysis = "None"
    /\ llm_calls = {}
    /\ llm_errors = {}
    /\ order = NoOrder
    /\ exception = FALSE

NextParse == ParseDecision

SpecParse == InitParse /\ [][NextParse]_vars

(***************************************************************************)
(* _rank_switches on the benches and predictions of one turn (SpecSwitch) *)
(***************************************************************************)
MaxBench == 2

\* damage figures of the opponent's moves "x" and "y" against a switch-in
FiguresX == {[move |-> <<"x">>, min_percent |-> 0, max_percent |-> 0],
             [move |-> <<"x">>, min_percent |-> 40, max_percent |-> 60]}
FiguresY == {[move |-> <<"y">>, min_percent |-> 90, max_percent |-> 110]}

\* matchup_results entries
MatchupData ==
    {[outcome |-> "win", our_remaining_hp_percent |-> 80],
     [outcome |-> "lose", our_remaining_hp_percent |-> 0],
     [outcome |-> "draw", our_remaining_hp_percent |-> 0]}

\* the first bench Pokemon, with what is known about it
BenchA ==
    {[pokemon |-> [species |-> SpeciesA, current_hp_percent |-> hp,
                   types |-> ty, ability |-> "None"],
      results |-> rs, matchup |-> md] :
        hp \in {25, 100}, ty \in {<<"normal">>, <<"fire", "flying">>},
        rs \in {<< >>} \cup {<<x>> : x \in FiguresX}
                       \cup {<<x, y>> : x \in FiguresX, y \in FiguresY},
        md \in {<< >>} \cup {<<d>> : d \in MatchupData}}

\* the second one
BenchB ==
    {[pokemon |-> [species |-> SpeciesB, current_hp_percent |-> hp,
                   types |-> <<"steel">>, ability |-> "levitate"],
      results |-> rs, matchup |-> << >>] :
        hp \in {50, 100},
        rs \in {<<x>> : x \in FiguresX} \cup {<<y>> : y \in FiguresY}}

\* a third one, at low HP
BenchC ==
    {[pokemon |-> [species |-> <<"y", "-", "x">>, current_hp_percent |-> 25,
                   types |-> <<"normal">>, ability |-> "None"],
      results |-> <<x>>, matchup |-> << >>] : x \in FiguresX}

\* battle.available_switches in every order the team can list it, up to
\* MaxBench Pokemon
Benches ==
    LET ordered(set) ==
            {q \in [1..Cardinality(set) -> set] : \A i, j \in DOMAIN q : i # j => q[i] # q[j]}
        all == {<<a>> : a \in BenchA}
                  \cup UNION {ordered({a, b}) : a \in BenchA, b \in BenchB}
                  \cup UNION {ordered({a, b, c}) : a \in BenchA, b \in BenchB, c \in BenchC}
    IN  {q \in all : Len(q) <= MaxBench}

\* expected_opponent_action["predictions"]
PredictionLists ==
    {"None",
     <<[action_type |-> "move", action |-> <<"X">>]>>,
     <<[action_type |-> "switch", action |-> <<"Y">>],
       [action_type |-> "move", action |-> <<"X", " ", "y">>]>>}

SideConditions ==
    {[stealth_rock |-> FALSE, spikes |-> 0],
     [stealth_rock |-> TRUE, spikes |-> 0],
     [stealth_rock |-> TRUE, spikes |-> 2]}

\* the arguments best_switches_node hands to _rank_switches
RankingOf(bench, predictions, side_conditions, opponent_active) ==
    [called |-> TRUE,
     switches |-> [i \in 1..Len(bench) |-> bench[i].pokemon],
     expected_move |-> _get_expected_move(predictions),
     their_vs_bench |-> [i \in 1..Len(bench) |->
                            [defender |-> bench[i].pokemon.species,
                             results |-> bench[i].results]],
     matchup_results |->
        [sp \in {bench[i].pokemon.species :
                    i \in {j \in 1..Len(bench) : bench[j].matchup # << >>}} |->
            LET i == CHOOSE j \in 1..Len(bench) : bench[j].pokemon.species = sp
            IN  bench[i].matchup[1]],
     side_conditions |-> side_conditions,
     opponent_active |-> opponent_active]

InitSwitch ==
    /\ TurnIdle
    /\ GraphIdle
    /\ BeliefIdle
    /\ DamageIdle
    /\ FightIdle
    /\ ToolIdle
    /\ ranked = << >>
    /\ \E bench \in Benches, predictions \in PredictionLists,
          side_conditions \in SideConditions, opponent_active \in BOOLEAN :
          ranking = RankingOf(bench, predictions, side_conditions, opponent_active)

\* best_switches_node: ranked_switches = _rank_switches(...)
RankSwitches ==
    /\ ranking.called
    /\ ranked = << >>
    /\ ranked' = _rank_switches(ranking)
    /\ UNCHANGED <<ranking, damageVars, fightVars>>
    /\ UNCHANGED toolVars
    /\ UNCHANGED <<turnVars, graphVars, beliefVars>>

NextSwitch == RankSwitches

SpecSwitch == InitSwitch /\ [][NextSwitch]_vars

(***************************************************************************)
(* One call of _calculate_single, or of _calculate_ko_chance alone, on the *)
(* damage rolls and defenders below (SpecDamage)                           *)
(***************************************************************************)
MaxDmg == 5
MaxHpStat == 4

\* (min_dmg, max_dmg) as calculate_damage returns them
DamageRolls == {r \in (0..MaxDmg) \X (0..MaxDmg) : r[1] <= r[2]}

\* the defenders: an opponent with its HP on the 0-100 scale, one of ours
\* with its HP value, and a Pokemon whose current_hp is None
Defenders ==
    {[is_opponent |-> TRUE, has_current_hp |-> TRUE, current_hp |-> hp,
      current_hp_fraction_percent |-> hp, defender_max_hp |-> mx] :
        hp \in {0, 25, 50, 100}, mx \in 1..MaxHpStat}
    \cup {[is_opponent |-> FALSE, has_current_hp |-> TRUE, current_hp |-> hp,
           current_hp_fraction_percent |-> 0, defender_max_hp |-> mx] :
             hp \in 0..MaxHpStat, mx \in 1..MaxHpStat}
    \cup {[is_opponent |-> o, has_current_hp |-> FALSE, current_hp |-> 0,
           current_hp_fraction_percent |-> fp, defender_max_hp |-> mx] :
             o \in BOOLEAN, fp \in {0, 50, 100}, mx \in 1..MaxHpStat}

SingleCalls ==
    {[called |-> TRUE, call |-> "single", min_dmg |-> r[1], max_dmg |-> r[2]] @@ d :
        r \in DamageRolls, d \in {e \in Defenders :
                                     e.is_opponent \/ ~e.has_current_hp
                                        \/ e.current_hp <= e.defender_max_hp}}

KoCalls ==
    {[called |-> TRUE, call |-> "ko", min_dmg |-> r[1], max_dmg |-> r[2],
      current_hp |-> hp] :
        r \in DamageRolls, hp \in (-1)..(MaxDmg + 1)}

InitDamage ==
    /\ TurnIdle
    /\ GraphIdle
    /\ BeliefIdle
    /\ SwitchIdle
    /\ FightIdle
    /\ ToolIdle
    /\ calc \in SingleCalls \cup KoCalls
    /\ damage_result = NotCalled

\* DamageCalculator._calculate_single
CalculateSingle ==
    /\ calc.called /\ calc.call = "single"
    /\ ~damage_result.called
    /\ damage_result' = _calculate_single(calc)
    /\ UNCHANGED <<calc, switchVars, fightVars>>
    /\ UNCHANGED toolVars
    /\ UNCHANGED <<turnVars, graphVars, beliefVars>>

\* DamageCalculator._calculate_ko_chance
CalculateKoChance ==
    /\ calc.called /\ calc.call = "ko"
    /\ ~damage_result.called
    /\ damage_result' =
          [called |-> TRUE,
           ko_chance |-> _calculate_ko_chance(calc.min_dmg, calc.max_dmg,
                                              calc.current_hp)]
    /\ UNCHANGED <<calc, switchVars, fightVars>>
    /\ UNCHANGED toolVars
    /\ UNCHANGED <<turnVars, graphVars, beliefVars>>

NextDamage ==
    \/ CalculateSingle
    \/ CalculateKoChance

SpecDamage == InitDamage /\ [][NextDamage]_vars

(***************************************************************************)
(* One call of _simulate_fight, an iteration of its loop at a time         *)
(* (SpecFight, and SpecFightLive for a call that is left to run)           *)
(***************************************************************************)
MaxStartHp == 3
MaxDamage == 2
LongFightHp == 25

\* HP at the call: fainted or not, and one that outlasts the turn limit
StartHps == ((-1)..MaxStartHp) \cup {LongFightHp}

DamagesPerTurn == (-1)..MaxDamage

FightCalls ==
    {[called |-> TRUE, pc |-> "loop", turns |-> 0,
      args |-> [our_hp |-> oh, their_hp |-> th],
      our_hp |-> oh, their_hp |-> th,
      our_damage_per_turn |-> od, their_damage_per_turn |-> td,
      we_outspeed |-> w] :
        oh \in StartHps, th \in StartHps,
        od \in DamagesPerTurn, td \in DamagesPerTurn, w \in BOOLEAN}

InitFight ==
    /\ TurnIdle
    /\ GraphIdle
    /\ BeliefIdle
    /\ SwitchIdle
    /\ DamageIdle
    /\ ToolIdle
    /\ sim \in FightCalls
    /\ sim_result = NotCalled

\* the loop test holds: one iteration
SimulateTurn ==
    /\ sim.called /\ sim.pc = "loop"
    /\ LoopContinues(sim.our_hp, sim.their_hp, sim.turns)
    /\ sim' = TurnBody(sim)
    /\ UNCHANGED <<sim_result, switchVars, damageVars>>
    /\ UNCHANGED toolVars
    /\ UNCHANGED <<turnVars, graphVars, beliefVars>>

\* the loop is left, by its test or by break: the outcome is returned
DetermineOutcome ==
    /\ sim.called
    /\ \/ sim.pc = "outcome"
       \/ sim.pc = "loop" /\ ~LoopContinues(sim.our_hp, sim.their_hp, sim.turns)
    /\ sim' = [sim EXCEPT !.pc = "done"]
    /\ sim_result' = FightOutcome(sim.our_hp, sim.their_hp, sim.turns)
    /\ UNCHANGED <<switchVars, damageVars>>
    /\ UNCHANGED toolVars
    /\ UNCHANGED <<turnVars, graphVars, beliefVars>>

NextFight ==
    \/ SimulateTurn
    \/ DetermineOutcome

SpecFight == InitFight /\ [][NextFight]_vars

\* the call is not suspended: it is plain sequential code
SpecFightLive == SpecFight /\ WF_vars(NextFight)

(***************************************************************************)
(* One call of calculate_speed_matchup on the active Pokemon of a          *)
(* snapshot (SpecSpeed)                                                    *)
(***************************************************************************)
MaxBaseSpeed == 3

SpeedStages == {-1, 0, 1}

\* Pokemon.item of the opponent's active Pokemon
ItemTexts ==
    {None, Some(<< >>), Some(<<"unknown">>), Some(<<"unknown", "_", "item">>),
     Some(<<"leftovers">>), Some(<<"choice", "scarf">>),
     Some(<<"Choice", " ", "Scarf">>)}

\* what randbats_data knows of the species' items
ItemPools ==
    {[has_randbats_data |-> FALSE, items |-> << >>],
     [has_randbats_data |-> TRUE, items |-> << >>],
     [has_randbats_data |-> TRUE, items |-> <<<<"leftovers">>>>],
     [has_randbats_data |-> TRUE, items |-> <<<<"leftovers">>, <<"choice", "scarf">>>>]}

OurActives ==
    {[spe |-> sp, boosts_spe |-> st, status |-> pa] :
        sp \in 1..MaxBaseSpeed, st \in SpeedStages, pa \in {"None", "PAR"}}

TheirActives ==
    {[spe |-> sp, boosts_spe |-> st, status |-> pa, item |-> it] :
        sp \in 1..MaxBaseSpeed, st \in {-1, 0}, pa \in {"None", "PAR"},
        it \in ItemTexts}

SpeedCalls ==
    {[called |-> TRUE, ours |-> o, theirs |-> t, pool |-> pl,
      trick_room_active |-> tr, tailwind_active |-> tw,
      opponent_tailwind_active |-> otw] :
        o \in OurActives, t \in TheirActives, pl \in ItemPools,
        tr \in BOOLEAN, tw \in BOOLEAN, otw \in BOOLEAN}

InitSpeed ==
    /\ TurnIdle
    /\ GraphIdle
    /\ BeliefIdle
    /\ SwitchIdle
    /\ DamageIdle
    /\ FightIdle
    /\ MovesIdle
    /\ PlayerIdle
    /\ VariantsIdle
    /\ speed_call \in SpeedCalls
    /\ speed_analysis = NotCalled

\* SpeedCalculator.calculate_speed_matchup
CalculateSpeedMatchup ==
    /\ speed_call.called
    /\ ~speed_analysis.called
    /\ speed_analysis' = calculate_speed_matchup(speed_call)
    /\ UNCHANGED <<speed_call, moveVars, playerVars, variantVars>>
    /\ UNCHANGED <<turnVars, graphVars, beliefVars, engineVars>>

NextSpeed == CalculateSpeedMatchup

SpecSpeed == InitSpeed /\ [][NextSpeed]_vars

(***************************************************************************)
(* One run of best_moves_node, with the call of _rank_moves it makes       *)
(* (SpecMoves)                                                             *)
(***************************************************************************)
MaxRanked == 2

\* the moves of the active Pokemon: id and priority
MovePool ==
    {[id |-> <<"x">>, priority |-> 0],
     [id |-> <<"y">>, priority |-> 1],
     [id |-> <<"x", "-", "y">>, priority |-> -1]}

\* Move.accuracy: 0 for a value that is not truthy, 1 for a move that never
\* misses (True), else a percentage
Accuracies == {0, 1, 50, 100}

\* what the damage stage found for a move against the opponent's active
\* Pokemon; "absent" when it has no figure for the move
ActiveFigures ==
    {[min_percent |-> 10, max_percent |-> 20, ko_chance |-> NoKo],
     [min_percent |-> 40, max_percent |-> 60,
      ko_chance |-> [kind |-> "percent", percent |-> 50]],
     [min_percent |-> 40, max_percent |-> 60,
      ko_chance |-> [kind |-> "guaranteed", percent |-> 0]]}

\* battle.available_moves with each move's accuracy and its figure
MoveChoices ==
    {[id |-> mv.id, priority |-> mv.priority, accuracy |-> a, figure |-> f] :
        mv \in MovePool, a \in Accuracies,
        f \in {None} \cup {Some(g) : g \in ActiveFigures}}

LegalMoveLists ==
    UNION {{q \in [1..k -> MoveChoices] :
               \A i, j \in 1..k : i # j => q[i].id # q[j].id} : k \in 0..MaxRanked}

\* damage_calc_raw["our_vs_bench"]
BenchMatchups ==
    {<< >>,
     <<[defender |-> SpeciesB,
        results |-> <<[move |-> <<"x">>, min_percent |-> 90, max_percent |-> 100,
                       ko_chance |-> NoKo]>>]>>}

RECURSIVE FiguresOf(_)
\* our_vs_active.results: the figures the damage stage has, in move order
FiguresOf(moves) ==
    IF moves = << >> THEN << >>
    ELSE (IF Head(moves).figure.isNone THEN << >>
          ELSE <<Head(moves).figure.text @@ [move |-> Head(moves).id]>>)
            \o FiguresOf(Tail(moves))

\* the rest of the snapshot: whether there is an active Pokemon, its item,
\* the legal switches, and force_switch
MoveContexts ==
    {[active_pokemon |-> TRUE, item |-> None,
      available_switches |-> <<SpeciesB>>],
     [active_pokemon |-> TRUE, item |-> Some(<<"choice", "scarf">>),
      available_switches |-> <<SpeciesB>>],
     [active_pokemon |-> TRUE, item |-> Some(<<"Choice", " ", "Band">>),
      available_switches |-> << >>],
     [active_pokemon |-> FALSE, item |-> None,
      available_switches |-> <<SpeciesB>>]}

\* damage_calc_raw: None, without our_vs_active, or with it
DamageStates == {"None", "no_matchup", "matchup"}

MoveRankingOf(moves, ctx, damage, bench) ==
    [called |-> TRUE, returned |-> FALSE, rank_calls |-> 0, best_moves |-> "None",
     summary |-> << >>,
     active_pokemon |-> ctx.active_pokemon,
     item |-> ctx.item,
     available_switches |-> ctx.available_switches,
     force_switch |-> (moves = << >> /\ ctx.available_switches # << >>),
     available_moves |-> [i \in 1..Len(moves) |->
                             [id |-> moves[i].id, priority |-> moves[i].priority,
                              accuracy |-> moves[i].accuracy]],
     damage_calc_raw_is_none |-> (damage = "None"),
     our_vs_active |-> IF damage = "matchup" THEN Some([results |-> FiguresOf(moves)])
                       ELSE None,
     our_vs_bench |-> IF damage = "None" THEN << >> ELSE bench]

InitMoves ==
    /\ TurnIdle
    /\ GraphIdle
    /\ BeliefIdle
    /\ SwitchIdle
    /\ DamageIdle
    /\ FightIdle
    /\ SpeedIdle
    /\ PlayerIdle
    /\ VariantsIdle
    /\ \E moves \in LegalMoveLists, ctx \in MoveContexts, damage \in DamageStates,
          bench \in BenchMatchups :
          /\ damage = "matchup" \/ \A i \in 1..Len(moves) : moves[i].figure.isNone
          /\ damage = "None" => bench = << >>
          /\ move_ranking = MoveRankingOf(moves, ctx, damage, bench)
    /\ ranked_moves = << >>

\* best_moves_node
BestMoves ==
    /\ move_ranking.called
    /\ ~move_ranking.returned
    /\ LET r == best_moves_result(move_ranking)
       IN  /\ ranked_moves' = r.moves
           /\ move_ranking' = [move_ranking EXCEPT !.returned = TRUE,
                                                   !.rank_calls = r.rank_calls,
                                                   !.best_moves = r.best_moves,
                                                   !.summary = r.summary]
    /\ UNCHANGED <<speedVars, playerVars, variantVars>>
    /\ UNCHANGED <<turnVars, graphVars, beliefVars, engineVars>>

NextMoves == BestMoves

SpecMoves == InitMoves /\ [][NextMoves]_vars

(***************************************************************************)
(* showdown/client.py: one TailGlowPlayer playing several battles.  The    *)
(* calls of choose_move are coroutines of one event loop: a call runs      *)
(* without interruption between two of its awaits that suspend, which are  *)
(* the download of the randbats data on the player's first call and the    *)
(* chat message.  _run_team_analysis awaits nothing.  (SpecPlayer)         *)
(***************************************************************************)
BattleTags == {"battle-a", "battle-b"}
MaxTurn == 2
MaxCalls == 2

Absent == [present |-> FALSE, team_analysis |-> None]

\* an emptied context
DeleteAll(context, battle_tag) == [t \in BattleTags |-> Absent]

\* del self.battle_context[battle.battle_tag]
DeleteEntry(context, battle_tag) == [context EXCEPT ![battle_tag] = Absent]

\* lines 64-67: a new battle gets an entry without analysis
WithEntry(context, battle_tag) ==
    IF context[battle_tag].present THEN context
    ELSE [context EXCEPT ![battle_tag] = [present |-> TRUE, team_analysis |-> None]]

\* what team_analysis_graph.invoke can do for a battle: return an analysis
\* written for that battle, return none, or raise
TeamAnalysisOutcomes == {"analysis", "empty", "raise"}

\* _run_team_analysis: only a non-empty result is stored
_run_team_analysis(context, battle_tag, run, outcome) ==
    IF outcome = "analysis"
    THEN [context EXCEPT ![battle_tag].team_analysis =
                            Some([battle |-> battle_tag, run |-> run])]
    ELSE context

\* _build_battle_state: battle_context.get(battle_tag, {}).get("team_analysis")
_build_battle_state(context, battle_tag) ==
    IF context[battle_tag].present THEN context[battle_tag].team_analysis ELSE None

InitPlayer ==
    /\ TurnIdle
    /\ GraphIdle
    /\ BeliefIdle
    /\ SwitchIdle
    /\ DamageIdle
    /\ FightIdle
    /\ SpeedIdle
    /\ MovesIdle
    /\ VariantsIdle
    /\ battle_context = [t \in BattleTags |-> Absent]
    /\ player = [called |-> TRUE, randbats_initialized |-> FALSE,
                 battles_played |-> 0, battles_won |-> 0]
    /\ battles = [t \in BattleTags |->
                     [pc |-> "idle", turn |-> 1, calls |-> 0, finished |-> FALSE,
                      team_runs |-> 0, initial_team_analysis |-> None]]

PlayerFrame ==
    UNCHANGED <<turnVars, graphVars, beliefVars, engineVars, speedVars, moveVars, variantVars>>

\* choose_move from the context entry to the await of the chat message:
\* the entry, the team analysis on turn 1, the initial state, the battle graph
Body(t, outcome) ==
    LET entered == WithEntry(battle_context, t)
        first_turn == battles[t].turn = 1
        runs == battles[t].team_runs + (IF first_turn THEN 1 ELSE 0)
        analysed == IF first_turn THEN _run_team_analysis(entered, t, runs, outcome)
                    ELSE entered
    IN  /\ battle_context' = analysed
        /\ battles' = [battles EXCEPT
                          ![t].pc = "chat",
                          ![t].team_runs = runs,
                          ![t].initial_team_analysis = _build_battle_state(analysed, t)]

\* the server asks for a decision, with the turn counter of the last request
\* (a forced switch) or the next one; the player's first call of all waits
\* for init_randbats_data
Request(t) ==
    /\ player.called
    /\ battles[t].pc = "idle" /\ ~battles[t].finished
    /\ battles[t].calls < MaxCalls
    /\ \E turn \in {battles[t].turn, battles[t].turn + 1} :
          /\ turn <= MaxTurn
          /\ battles[t].calls = 0 => turn = 1
          /\ battles' = [battles EXCEPT
                            ![t].pc = IF player.randbats_initialized THEN "entered"
                                      ELSE "init_randbats",
                            ![t].turn = turn,
                            ![t].calls = battles[t].calls + 1]
    /\ player' = [player EXCEPT !.randbats_initialized = TRUE]
    /\ UNCHANGED battle_context
    /\ PlayerFrame

\* choose_move runs on to the chat message
ChooseMove(t) ==
    /\ player.called
    /\ battles[t].pc \in {"entered", "init_randbats"}
    /\ \E outcome \in TeamAnalysisOutcomes : Body(t, outcome)
    /\ UNCHANGED player
    /\ PlayerFrame

\* the chat message is sent (or fails): _execute_action returns the order
ExecuteDecided(t) ==
    /\ player.called
    /\ battles[t].pc = "chat"
    /\ battles' = [battles EXCEPT ![t].pc = "idle"]
    /\ UNCHANGED <<battle_context, player>>
    /\ PlayerFrame

\* _battle_finished_callback
BattleFinished(t) ==
    /\ player.called
    /\ battles[t].calls > 0 /\ ~battles[t].finished
    /\ \E won \in BOOLEAN :
          player' = [player EXCEPT
                        !.battles_played = player.battles_played + 1,
                        !.battles_won = player.battles_won + (IF won THEN 1 ELSE 0)]
    /\ battle_context' = IF battle_context[t].present
                         THEN DeleteEntry(battle_context, t)
                         ELSE battle_context
    /\ battles' = [battles EXCEPT ![t].finished = TRUE]
    /\ PlayerFrame

NextPlayer ==
    \/ \E t \in BattleTags : Request(t)
    \/ \E t \in BattleTags : ChooseMove(t)
    \/ \E t \in BattleTags : ExecuteDecided(t)
    \/ \E t \in BattleTags : BattleFinished(t)

SpecPlayer == InitPlayer /\ [][NextPlayer]_vars

(***************************************************************************)
(* damage_calc/calculator.py: the batch operations of the damage engine on *)
(* the Pokemon objects of the snapshot.  A Pokemon is its _item, _ability, *)
(* _stats and _level; a stat line is named by where its numbers come from. *)
(***************************************************************************)
MaxVariants == 2

PokemonIds == {"p1: active", "p1: bench", "p2: active", "p2: bench"}

\* any(p is pokemon for p in battle.opponent_team.values())
IsOpponentId(id) == id \in {"p2: active", "p2: bench"}

UnknownItem == <<"unknown", "_", "item">>

\* _normalize_item, _normalize_ability
NormalizeName(name) == Remove(Remove(Lower(name), " "), "-")

\* the stat line compute_raw_stats gives: from the randbats spreads, which
\* are the ones the server built our own Pokemon from, or from the fixed
\* 85-EV spread
ComputedLine(id, engine) ==
    IF engine.randbats_data
    THEN IF IsOpponentId(id) THEN "randbats" ELSE "request"
    ELSE "spread85"

\* the PokemonState that TeamsState holds for the Pokemon, if any
CachedState(id, engine) ==
    [present |-> engine.cached # "absent",
     stats |-> IF engine.cached = "line" THEN ComputedLine(id, engine) ELSE "empty",
     level |-> engine.randbats_level]

\* DamageCalculator._ensure_pokemon_stats
_ensure_pokemon_stats(pokemon, id, engine) ==
    LET cached_state == CachedState(id, engine)
    IN  IF engine.teams_state /\ cached_state.present /\ cached_state.stats # "empty"
        THEN [pokemon EXCEPT !.stats = cached_state.stats, !.level = cached_state.level]
        ELSE IF ~engine.in_pokedex THEN pokemon
        ELSE [pokemon EXCEPT
                 !.stats = ComputedLine(id, engine),
                 !.level = IF engine.randbats_data THEN engine.randbats_level
                           ELSE pokemon.level]

\* lines 302-331: the items and abilities to go through for one side
VariantItems(vary, id, engine) ==
    IF vary /\ engine.teams_state /\ engine.cached # "absent" /\ IsOpponentId(id)
    THEN IF Truthy(engine.revealed_item[id]) THEN <<engine.revealed_item[id].text>>
         ELSE IF engine.possible_items # << >>
         THEN [i \in 1..Len(engine.possible_items) |-> NormalizeName(engine.possible_items[i])]
         ELSE <<UnknownItem>>
    ELSE <<UnknownItem>>

VariantAbilities(vary, id, engine) ==
    IF vary /\ engine.teams_state /\ engine.cached # "absent" /\ IsOpponentId(id)
    THEN IF Truthy(engine.revealed_ability[id])
         THEN <<Some(NormalizeName(engine.revealed_ability[id].text))>>
         ELSE IF engine.possible_abilities # << >>
         THEN [i \in 1..Len(engine.possible_abilities) |->
                  Some(NormalizeName(engine.possible_abilities[i]))]
         ELSE <<None>>
    ELSE <<None>>

\* the k-th pass of the four nested loops, k counted from 0
VariantAt(atk_items, def_items, atk_abilities, def_abilities, k) ==
    LET i4 == k % Len(def_abilities)
        r3 == k \div Len(def_abilities)
        i3 == r3 % Len(atk_abilities)
        r2 == r3 \div Len(atk_abilities)
        i2 == r2 % Len(def_items)
        i1 == r2 \div Len(def_items)
    IN  [atk_item |-> atk_items[i1 + 1], def_item |-> def_items[i2 + 1],
         atk_ability |-> atk_abilities[i3 + 1], def_ability |-> def_abilities[i4 + 1]]

\* what calculate_damage returns for a move on the two Pokemon as they are
\* when it is called: an item the move's damage depends on adds a point in
\* the attacker's hands and takes one in the defender's, an ability of the
\* attacker the move depends on adds one
DamageRoll(move, attacker, defender) ==
    LET up == IF Truthy(attacker.item) /\ attacker.item.text \in move.items THEN 1 ELSE 0
        down == IF Truthy(defender.item) /\ defender.item.text \in move.items THEN 1 ELSE 0
        more == IF move.guts /\ attacker.ability = Some(<<"guts">>) THEN 1 ELSE 0
    IN  <<2 + up + more - down, 3 + up + more - down>>

\* DamageCalculator._calculate_single on the two Pokemon as they are now;
\* call_no counts the calls made for this move
VariantResult(move, attacker, defender, defender_id, assumed_item, assumed_ability, call_no) ==
    IF move.failure # "none" /\ move.fail_at = call_no
    THEN [outcome |-> move.failure]
    ELSE LET roll == DamageRoll(move, attacker, defender)
             single == _calculate_single(
                          [min_dmg |-> roll[1], max_dmg |-> roll[2],
                           is_opponent |-> IsOpponentId(defender_id),
                           has_current_hp |-> TRUE,
                           current_hp |-> IF IsOpponentId(defender_id) THEN 100
                                          ELSE MaxDmg,
                           current_hp_fraction_percent |-> 100,
                           defender_max_hp |-> MaxDmg])
         IN  [outcome |-> "result",
              min_percent |-> single.min_percent,
              max_percent |-> single.max_percent,
              ko_chance |-> single.ko_chance,
              assumed_item |-> assumed_item,
              assumed_ability |-> assumed_ability]

\* f"{existing}/{new}" unless new is already a part of existing
MergeAssumption(existing, new) ==
    IF Truthy(new) /\ Truthy(existing) /\ ~Contains(existing.text, new.text)
    THEN Some(existing.text \o <<"/">> \o new.text)
    ELSE existing

\* lines 374-386: a new range is appended, a known one takes the assumptions
Collect(results, result) ==
    LET same == {i \in 1..Len(results) :
                    /\ results[i].min_percent = result.min_percent
                    /\ results[i].max_percent = result.max_percent}
    IN  IF same = {} THEN Append(results, result)
        ELSE [i \in 1..Len(results) |->
                 IF i \in same
                 THEN [results[i] EXCEPT
                          !.assumed_item = MergeAssumption(@, result.assumed_item),
                          !.assumed_ability = MergeAssumption(@, result.assumed_ability)]
                 ELSE results[i]]

\* lines 347-386: one pass of the loops
VariantPass(st, v, move, defender_id, vary_attacker, vary_defender) ==
    LET attacker ==
            IF vary_attacker
            THEN [st.attacker EXCEPT
                     !.item = Some(v.atk_item),
                     !.ability = IF Truthy(v.atk_ability) THEN v.atk_ability ELSE @]
            ELSE st.attacker
        defender ==
            IF vary_defender
            THEN [st.defender EXCEPT
                     !.item = Some(v.def_item),
                     !.ability = IF Truthy(v.def_ability) THEN v.def_ability ELSE @]
            ELSE st.defender
        assumed_item == IF vary_attacker THEN Some(v.atk_item)
                        ELSE IF vary_defender THEN Some(v.def_item)
                        ELSE None
        assumed_ability == IF vary_attacker THEN v.atk_ability
                           ELSE IF vary_defender THEN v.def_ability
                           ELSE None
        result == VariantResult(move, attacker, defender, defender_id,
                                assumed_item, assumed_ability, st.calls + 1)
    IN  [attacker |-> attacker,
         defender |-> defender,
         calls |-> st.calls + 1,
         raised |-> result.outcome = "propagates",
         results |-> IF result.outcome = "result" THEN Collect(st.results, result)
                     ELSE st.results]

RECURSIVE VariantLoop(_, _, _, _, _, _, _, _)
VariantLoop(st, k, total, pools, move, defender_id, vary_attacker, vary_defender) ==
    IF k = total \/ st.raised THEN st
    ELSE VariantLoop(
            VariantPass(st,
                        VariantAt(pools.atk_items, pools.def_items,
                                  pools.atk_abilities, pools.def_abilities, k),
                        move, defender_id, vary_attacker, vary_defender),
            k + 1, total, pools, move, defender_id, vary_attacker, vary_defender)

\* a restore that is skipped when the loops are left by an exception
RestoreOnReturn(st, attacker, defender) ==
    IF st.raised THEN st
    ELSE [st EXCEPT
             !.attacker = [@ EXCEPT !.item = attacker.item, !.ability = attacker.ability],
             !.defender = [@ EXCEPT !.item = defender.item, !.ability = defender.ability]]

\* the finally block, lines 387-392
Restore(st, attacker, defender) ==
    [st EXCEPT
        !.attacker = [@ EXCEPT !.item = attacker.item, !.ability = attacker.ability],
        !.defender = [@ EXCEPT !.item = defender.item, !.ability = defender.ability]]

\* lines 394-406
ClearSingle(results) ==
    IF Len(results) = 1
       /\ (Truthy(results[1].assumed_item) \/ Truthy(results[1].assumed_ability))
    THEN <<[results[1] EXCEPT !.assumed_item = None, !.assumed_ability = None]>>
    ELSE results

\* DamageCalculator._calculate_with_variants: the two Pokemon afterwards,
\* whether the call raised, and the list it returned
_calculate_with_variants(attacker, attacker_id, defender, defender_id, move, engine, vary_attacker, vary_defender) ==
    LET pools == [atk_items |-> VariantItems(vary_attacker, attacker_id, engine),
                  def_items |-> VariantItems(vary_defender, defender_id, engine),
                  atk_abilities |-> VariantAbilities(vary_attacker, attacker_id, engine),
                  def_abilities |-> VariantAbilities(vary_defender, defender_id, engine)]
        total == Len(pools.atk_items) * Len(pools.def_items)
                    * Len(pools.atk_abilities) * Len(pools.def_abilities)
        looped == VariantLoop([attacker |-> attacker, defender |-> defender,
                               calls |-> 0, raised |-> FALSE, results |-> << >>],
                              0, total, pools, move, defender_id,
                              vary_attacker, vary_defender)
        restored == Restore(looped, attacker, defender)
    IN  [attacker |-> restored.attacker,
         defender |-> restored.defender,
         raised |-> restored.raised,
         variants |-> total,
         passes |-> restored.calls,
         results |-> IF restored.raised THEN << >> ELSE ClearSingle(restored.results)]

\* the loop over the moves of a batch operation for one attacker and one
\* defender: the Pokemon afterwards and the results gathered
RECURSIVE MovesLoop(_, _, _, _, _, _, _, _)
MovesLoop(st, moves, attacker_id, defender_id, engine, vary_attacker, vary_defender, i) ==
    IF i > Len(moves) \/ st.raised THEN st
    ELSE LET call == _calculate_with_variants(
                        st.snapshot[attacker_id], attacker_id,
                        st.snapshot[defender_id], defender_id,
                        moves[i], engine, vary_attacker, vary_defender)
         IN  MovesLoop(
                [snapshot |-> [st.snapshot EXCEPT ![attacker_id] = call.attacker,
                                                  ![defender_id] = call.defender],
                 raised |-> call.raised,
                 results |-> st.results \o call.results],
                moves, attacker_id, defender_id, engine, vary_attacker, vary_defender,
                i + 1)

\* a batch operation for one attacker and one defender
Matchup(snap, moves, attacker_id, defender_id, engine, vary_attacker, vary_defender) ==
    LET ensured == [snap EXCEPT
                       ![attacker_id] = _ensure_pokemon_stats(@, attacker_id, engine),
                       ![defender_id] = _ensure_pokemon_stats(@, defender_id, engine)]
    IN  MovesLoop([snapshot |-> ensured, raised |-> FALSE, results |-> << >>],
                  moves, attacker_id, defender_id, engine, vary_attacker, vary_defender, 1)

\* --- SpecVariants: the batch operations on one snapshot -------------------
\* our two Pokemon as the request describes them, the opposing active with
\* nothing or with its item and ability revealed, the opposing bench unknown
EngineSnapshots ==
    {[id \in PokemonIds |->
         IF id = "p1: active"
         THEN [item |-> Some(<<"leftovers">>), ability |-> Some(<<"guts">>),
               stats |-> "request", level |-> 80]
         ELSE IF id = "p1: bench"
         THEN [item |-> Some(<<"life", "orb">>), ability |-> Some(<<"sheer", "force">>),
               stats |-> "request", level |-> 80]
         ELSE IF id = "p2: active" /\ revealed
         THEN [item |-> Some(<<"life", "orb">>), ability |-> Some(<<"guts">>),
               stats |-> "unknown", level |-> 80]
         ELSE [item |-> Some(UnknownItem), ability |-> None,
               stats |-> "unknown", level |-> 80]] :
        revealed \in BOOLEAN}

DisplayItems == {<<"Life", " ", "Orb">>, <<"Choice", " ", "Band">>, <<"Leftovers">>}
AbilityPools == {<< >>, <<<<"Guts">>, <<"Sheer", " ", "Force">>>>}

\* TeamsState._update_revealed_info on the snapshot
RevealedItem(snap) ==
    [id \in PokemonIds |->
        IF IsOpponentId(id) /\ Truthy(snap[id].item) /\ snap[id].item.text # UnknownItem
        THEN snap[id].item ELSE None]
RevealedAbility(snap) ==
    [id \in PokemonIds |->
        IF IsOpponentId(id) /\ Truthy(snap[id].ability) THEN snap[id].ability ELSE None]

\* the calculators: with a TeamsState that holds a stat line for the species,
\* that holds none, or that holds an empty one for a species outside the
\* pokedex; without a TeamsState, with and without randbats data
Engines(snap) ==
    {e \in {[called |-> TRUE, teams_state |-> ts, cached |-> c, randbats_data |-> rb,
             in_pokedex |-> c # "empty", randbats_level |-> lv,
             revealed_item |-> RevealedItem(snap),
             revealed_ability |-> RevealedAbility(snap),
             possible_items |-> pi, possible_abilities |-> pa] :
               ts \in BOOLEAN, c \in {"absent", "line", "empty"}, rb \in BOOLEAN,
               lv \in {80, 82},
               pi \in DistinctSeqs(DisplayItems, MaxVariants), pa \in AbilityPools} :
        /\ ~e.teams_state => e.cached = "absent"
        /\ e.teams_state => e.randbats_data
        /\ e.cached = "absent" => e.possible_items = << >> /\ e.possible_abilities = << >>
        /\ ~e.randbats_data => e.randbats_level = 80}

\* the moves by what their damage depends on: nothing, Life Orb, or Life Orb,
\* Choice Band and Guts; a move's calculation may fail on one of its calls,
\* caught by _calculate_single or not
PlainMove == [items |-> {}, guts |-> FALSE, failure |-> "none", fail_at |-> 0]
EngineMoves ==
    {[items |-> it, guts |-> it = {<<"life", "orb">>, <<"choice", "band">>},
      failure |-> f, fail_at |-> IF f = "none" THEN 0 ELSE n] :
        it \in {{}, {<<"life", "orb">>}, {<<"life", "orb">>, <<"choice", "band">>},
                {<<"leftovers">>, UnknownItem}},
        f \in {"none", "caught", "propagates"}, n \in 1..MaxVariants}

InitVariants ==
    /\ TurnIdle
    /\ GraphIdle
    /\ BeliefIdle
    /\ SwitchIdle
    /\ DamageIdle
    /\ FightIdle
    /\ SpeedIdle
    /\ MovesIdle
    /\ PlayerIdle
    /\ snapshot \in EngineSnapshots
    /\ calculator \in Engines(snapshot)
    /\ variant_result = NotCalled

VariantsFrame ==
    UNCHANGED <<turnVars, graphVars, beliefVars, engineVars, speedVars, moveVars, playerVars>>

\* DamageCalculator._calculate_with_variants, called as the batch operations
\* call it or with both or neither side varied
CalculateWithVariants ==
    /\ calculator.called
    /\ ~variant_result.called
    /\ \E attacker_id, defender_id \in PokemonIds, move \in EngineMoves,
          vary_attacker, vary_defender \in BOOLEAN :
          /\ IsOpponentId(attacker_id) # IsOpponentId(defender_id)
          /\ LET call == _calculate_with_variants(
                            snapshot[attacker_id], attacker_id,
                            snapshot[defender_id], defender_id,
                            move, calculator, vary_attacker, vary_defender)
             IN  /\ snapshot' = [snapshot EXCEPT ![attacker_id] = call.attacker,
                                                 ![defender_id] = call.defender]
                 /\ variant_result' = [called |-> TRUE, operation |-> "variants",
                                       before |-> snapshot, raised |-> call.raised,
                                       variants |-> call.variants,
                                       passes |-> call.passes,
                                       results |-> call.results]
    /\ UNCHANGED calculator
    /\ VariantsFrame

NextVariants == CalculateWithVariants

SpecVariants == InitVariants /\ [][NextVariants]_vars

\* --- SpecBatch: sequences of batch operations on one snapshot -------------
BatchMoveLists ==
    {q \in SeqsUpTo({PlainMove,
                     [items |-> {<<"life", "orb">>}, guts |-> FALSE,
                      failure |-> "propagates", fail_at |-> 1]}, MaxMoves) :
        \A i \in 2..Len(q) : q[i] # q[i - 1]} \cup {<< >>}

InitBatch ==
    /\ InitVariants
    /\ Len(calculator.possible_items) \in {0, MaxVariants}

\* what a batch operation leaves: the snapshot, and what it returned
BatchDone(operation, left) ==
    /\ snapshot' = left.snapshot
    /\ variant_result' = [called |-> TRUE, operation |-> operation,
                          raised |-> left.raised, results |-> left.results]
    /\ UNCHANGED calculator
    /\ VariantsFrame

\* DamageCalculator.calculate_our_moves_vs_active
CalculateOurMovesVsActive ==
    /\ calculator.called
    /\ \E available_moves \in BatchMoveLists :
          BatchDone("our_moves_vs_active",
                    Matchup(snapshot, available_moves, "p1: active", "p2: active",
                            calculator, FALSE, TRUE))

\* DamageCalculator.calculate_our_moves_vs_bench
CalculateOurMovesVsBench ==
    /\ calculator.called
    /\ \E available_moves \in BatchMoveLists :
          BatchDone("our_moves_vs_bench",
                    Matchup(snapshot, available_moves, "p1: active", "p2: bench",
                            calculator, FALSE, TRUE))

\* DamageCalculator.calculate_their_moves_vs_us
CalculateTheirMovesVsUs ==
    /\ calculator.called
    /\ \E moves_data \in BatchMoveLists :
          BatchDone("their_moves_vs_us",
                    Matchup(snapshot, moves_data, "p2: active", "p1: active",
                            calculator, TRUE, FALSE))

\* DamageCalculator.calculate_their_moves_vs_bench
CalculateTheirMovesVsBench ==
    /\ calculator.called
    /\ \E moves_data \in BatchMoveLists :
          BatchDone("their_moves_vs_bench",
                    Matchup(snapshot, moves_data, "p2: active", "p1: bench",
                            calculator, TRUE, FALSE))

NextBatch ==
    \/ CalculateOurMovesVsActive
    \/ CalculateOurMovesVsBench
    \/ CalculateTheirMovesVsUs
    \/ CalculateTheirMovesVsBench

SpecBatch == InitBatch /\ [][NextBatch]_vars

(***************************************************************************)
(* Properties of one turn.                                                 *)
(***************************************************************************)
HasLegalOption == battle.available_moves # << >> \/ battle.available_switches # << >>

OrderIsLegal ==
    \/ /\ order.kind = "move"
       /\ \E i \in 1..Len(battle.available_moves) :
             order.name = battle.available_moves[i]
    \/ /\ order.kind = "switch"
       /\ \E i \in 1..Len(battle.available_switches) :
             order.name = battle.available_switches[i]

\* C1: when every LLM call of the turn raises (prediction, decision, memory,
\* and the turn-1 team analysis), a snapshot with at least one legal option
\* still ends the turn with action_type in {move, switch} and an order that
\* is one of available_moves / available_switches, and no exception reaches
\* the caller of choose_move.
C1_LlmFailureStillLegalOrder ==
    (pc = "finished" /\ llm_calls \subseteq llm_errors /\ HasLegalOption)
        => /\ ~exception
           /\ action_type \in {"move", "switch"}
           /\ OrderIsLegal

\* all three per-turn LLM stages raised and the first legal move was issued
C1_Witness ==
    /\ pc = "finished"
    /\ llm_errors = {"prediction", "decision", "memory"}
    /\ battle.available_moves # << >>
    /\ order = MoveOrder(battle.available_moves[1])

FirstLegalOrder ==
    IF battle.available_moves # << >> THEN MoveOrder(battle.available_moves[1])
    ELSE IF battle.available_switches # << >>
    THEN SwitchOrder(battle.available_switches[1])
    ELSE DefaultOrder

\* C2: when the decision LLM call raises, the order issued is the first legal
\* move, else the first legal switch, else the no-option order, for every
\* move id and species name, including names that contain "switch", a dash
\* or a parenthesis.
C2_FallbackIssuesFirstLegal ==
    (pc = "finished" /\ "decision" \in llm_errors) => order = FirstLegalOrder

(***************************************************************************)
(* Properties of the battle graph.                                         *)
(***************************************************************************)
StageNodes == Phase1 \cup Prediction \cup Phase2

\* the output keys of each stage
Owns(s) ==
    CASE s = "format_state" -> {"formatted_state"}
      [] s = "fetch_sets" -> {"opponent_sets"}
      [] s = "damage" -> {"damage_calculations", "damage_calc_raw"}
      [] s = "speed" -> {"speed_analysis", "speed_calc_raw"}
      [] s = "type_matchups" -> {"type_matchups"}
      [] s = "effects" -> {"effects_analysis"}
      [] s = "matchup" -> {"matchup_results"}
      [] s = "strategy" -> {"strategy_context"}
      [] s = "expected_move" -> {"expected_opponent_action"}
      [] s = "best_moves" -> {"best_moves"}
      [] s = "best_switches" -> {"best_switches"}
      [] s = "tera" -> {"tera_analysis"}
      [] s = "decide" -> {"llm_response", "error"}
      [] s = "parse" -> {"reasoning", "action_type", "action_target", "error"}
      [] s = "battle_memory" -> {"battle_log", "battle_analysis", "revealed_sets"}

\* the stages whose computation dereferences damage_calc_raw
DamageReaders == {"matchup", "expected_move", "best_moves", "best_switches"}

\* the stage's computation ran and raised or produced nothing usable
Failed(s) ==
    /\ env[s] # "no_switches"
    /\ \/ env[s] # "ok"
       \/ s \in DamageReaders /\ view[s]["damage_calc_raw"] = "None"

RECURSIVE SeqRun(_, _)
\* the stages of sequence seq run one after the other on state st
SeqRun(seq, st) ==
    IF seq = << >> THEN st
    ELSE SeqRun(Tail(seq),
                Merge(st, RunNode(Head(seq), ViewOf(Head(seq), st),
                                  env[Head(seq)]).update))

DeclaredOrder ==
    <<"damage", "speed", "type_matchups", "effects", "matchup", "strategy">>

\* C4: every execution order of the Phase-1 stages (any permutation, or
\* interleaved) leaves the same state as running them in the declared order,
\* because no Phase-1 stage reads a key another Phase-1 stage writes.
C4_PhaseOneOrderIndependent ==
    (Phase1 \subseteq done /\ "expected_move" \notin done)
        => gstate = SeqRun(DeclaredOrder,
                           SeqRun(<<"format_state", "fetch_sets">>, InitialState))

Writes(s) == DOMAIN returned[s] \cup mutated[s]
FanOuts == {Phase1, Phase2}

\* C5: two distinct stages of the same fan-out phase write disjoint key sets
\* (keys of the returned update plus keys changed in place), and no fan-out
\* stage writes a key that another stage owns.
C5_DisjointWrites ==
    /\ \A phase \in FanOuts : \A s, t \in phase \cap done :
          s # t => Writes(s) \cap Writes(t) = {}
    /\ \A phase \in FanOuts : \A s \in phase \cap done : \A t \in Stages \ {s} :
          Writes(s) \cap Owns(t) = {}

StartsNow(s) == s \notin done \cup running /\ s \in done' \cup running'

\* C6: the decision stage starts only after every Phase-1 and Phase-2 stage
\* has completed, a Phase-2 stage starts only after the prediction stage has
\* completed, and parsing starts only after the decision stage has written
\* llm_response.
C6_StagesStartInOrder ==
    [][/\ StartsNow("decide") => (Phase1 \cup Phase2) \subseteq done
       /\ \A s \in Phase2 : StartsNow(s) => "expected_move" \in done
       /\ StartsNow("parse") =>
             /\ "decide" \in done
             /\ "llm_response" \in DOMAIN returned["decide"]
             /\ gstate["llm_response"] = returned["decide"]["llm_response"]]_vars

\* the decision has run and saw the rankings of the second fan-out
C6_Witness ==
    /\ "parse" \in done
    /\ view["decide"]["best_moves"] = "Ranked"
    /\ view["decide"]["best_switches"] = "RankedAgainstPrediction"
    /\ view["parse"]["llm_response"] = "Response"

(***************************************************************************)
(* Properties of the opponent belief trackers                              *)
(***************************************************************************)
NoDuplicates(q) == \A i, j \in 1..Len(q) : i # j => q[i] # q[j]

\* the entry of species in the battle memory's map
Entry(species) == heap[revealed_sets[species]]

\* C7: in both trackers an update keeps every tracked species and every
\* revealed move of it, and a revealed-move list never holds a move twice
C7_RevealedOnlyGrows ==
    [][/\ DOMAIN revealed_sets \subseteq DOMAIN revealed_sets'
       /\ \A species \in DOMAIN revealed_sets :
             Range(Entry(species).revealed_moves)
                 \subseteq Range(heap'[revealed_sets'[species]].revealed_moves)
       /\ \A species \in DOMAIN revealed_sets' :
             NoDuplicates(heap'[revealed_sets'[species]].revealed_moves)
       /\ DOMAIN their_team \subseteq DOMAIN their_team'
       /\ \A species \in DOMAIN their_team :
             Range(their_team[species].revealed_moves)
                 \subseteq Range(their_team'[species].revealed_moves)
       /\ \A species \in DOMAIN their_team' :
             NoDuplicates(their_team'[species].revealed_moves)]_vars

\* both species tracked by the battle memory, the first with two moves revealed
C7_Witness ==
    /\ tracking = "memory"
    /\ DOMAIN revealed_sets = {SpeciesA, SpeciesB}
    /\ Len(Entry(SpeciesA).revealed_moves) = 2

\* C8: in both trackers a species recorded as fainted stays recorded as
\* fainted after every later update
C8_FaintedIsMonotone ==
    [][/\ \A species \in DOMAIN revealed_sets :
             Entry(species).fainted => heap'[revealed_sets'[species]].fainted
       /\ \A species \in DOMAIN their_team :
             their_team[species].is_fainted => their_team'[species].is_fainted]_vars

\* C9: in both trackers a recorded non-empty revealed item, and a recorded
\* non-empty revealed ability, is left unchanged by every later update
C9_FirstRevealedWins ==
    [][/\ \A species \in DOMAIN revealed_sets :
             LET old == Entry(species)
                 new == heap'[revealed_sets'[species]]
             IN  /\ ~Falsy(old.revealed_item)
                       => new.revealed_item = old.revealed_item
                 /\ ~Falsy(old.revealed_ability)
                       => new.revealed_ability = old.revealed_ability
       /\ \A species \in DOMAIN their_team :
             LET old == their_team[species]
                 new == their_team'[species]
             IN  /\ ~Falsy(old.revealed_item)
                       => new.revealed_item = old.revealed_item
                 /\ ~Falsy(old.revealed_ability)
                       => new.revealed_ability = old.revealed_ability]_vars

\* C10: after _update_revealed_sets returns, previous_revealed and every
\* entry inside it equal what they were before the call
C10_UpdateLeavesPreviousAlone ==
    [][tracking = "memory"
          => Deref(revealed_sets, heap') = Deref(revealed_sets, heap)]_vars

(***************************************************************************)
(* Properties of parse_decision_node                                       *)
(***************************************************************************)
Parsed == pc = "battle_memory"

\* a reasoning as the claim's x: words and blanks only, no surrounding blanks
PlainReasonings ==
    {b \in ReasoningBodies : Strip(b) = b /\ \A i \in 1..Len(b) : b[i] \in {"x", " "}}

\* C11: 'REASONING: x\nACTION: <Move>' (the move with or without an aside)
\* parses to a move whose target is the lower-cased move name and to the
\* reasoning x; 'ACTION: Switch to <Name>' parses to a switch to the
\* lower-cased name
C11_WellFormedRoundTrip ==
    Parsed =>
        /\ \A x \in PlainReasonings, n \in MoveNames, a \in Asides :
              llm_response.text
                    = <<"REASONING:", " ">> \o x \o <<"\n", "ACTION:", " ">> \o n \o a
                 => /\ action_type = "move"
                    /\ action_target = Some(Lower(n))
                    /\ reasoning = Some(x)
        /\ \A n \in PokemonNames :
              llm_response.text = <<"ACTION:", " ", "Switch", " ", "to", " ">> \o n
                 => /\ action_type = "switch"
                    /\ action_target = Some(Lower(n))

\* the action marker occurs nowhere in the LLM's content (None holds none)
NoActionMarker(content) ==
    content.isNone
       \/ \A i \in 1..Len(content.text) : LowerTok(content.text[i]) # "action:"

\* C12: for a response without action marker the parser returns without
\* raising, with a move, a null target and a parse error recorded; for every
\* response the action type after parsing is move or switch
C12_NoMarkerGivesNullMove ==
    pc \in {"battle_memory", "raised"} =>
        /\ NoActionMarker(llm_response)
              => /\ ~exception
                 /\ action_type = "move"
                 /\ action_target = None
                 /\ error = "Could not parse response"
        /\ action_type \in {"move", "switch"}

\* positions of the action markers that start a line
ActionLines(s) ==
    {m \in 1..Len(s) : LowerTok(s[m]) = "action:" /\ (m = 1 \/ s[m-1] = "\n")}

\* C13: when the response has a line that starts with the action marker, the
\* parsed action is the one of the first such line, whatever the text before
\* it holds
C13_ActionFromMarkedLine ==
    (Parsed /\ ActionLines(llm_response.text) # {}) =>
        LET s == llm_response.text
            m == Min(ActionLines(s))
            r == parse_decision_node(SubSeq(s, m, LineEnd(s, m)), "None")
        IN  /\ action_type = r.action_type
            /\ action_target = r.action_target

HasReasoningMarker(s) == \E i \in 1..Len(s) : LowerTok(s[i]) = "reasoning:"

\* a reasoning marker that is followed by at least one character
HasMarkedReasoning(s) ==
    \E i \in 1..Len(s) : LowerTok(s[i]) = "reasoning:" /\ i < Len(s)

IsPrefix(a, b) == Len(a) <= Len(b) /\ SubSeq(b, 1, Len(a)) = a

\* the response with its 280-character word replaced by a short one
Shorten(s) == Replace(s, "Long", "x")

\* what C14 says of a response whose reasoning was captured
ReasoningWithinBudget ==
    /\ ~reasoning.isNone
    /\ TextLen(reasoning.text) <= 280
    /\ IsPrefix(reasoning.text, Strip(ReasoningSearch(llm_response.text).text))
    /\ LET short == parse_decision_node(Shorten(llm_response.text), "None")
       IN  /\ action_type = short.action_type
           /\ action_target = short.action_target

\* C14 as stated: reasoning is None without a reasoning marker; with one it
\* has at most 280 characters, is a prefix of the captured text, and the
\* action does not depend on the truncation
C14_ReasoningWithinBudget ==
    Parsed =>
        IF HasReasoningMarker(llm_response.text)
        THEN ReasoningWithinBudget
        ELSE reasoning = None

\* C14, amended: the same, where a marker counts only when at least one
\* character follows it
C14_MarkedReasoningWithinBudget ==
    Parsed =>
        IF HasMarkedReasoning(llm_response.text)
        THEN ReasoningWithinBudget
        ELSE reasoning = None

\* a captured reasoning of more than 280 characters was cut to 280
C14_Witness ==
    /\ Parsed
    /\ HasMarkedReasoning(llm_response.text)
    /\ TextLen(Strip(ReasoningSearch(llm_response.text).text)) > 280
    /\ ~reasoning.isNone
    /\ TextLen(reasoning.text) = 280

(***************************************************************************)
(* Properties of the best-switch ranking                                   *)
(***************************************************************************)
\* the switch-in a ranked entry is about
SwitchIn(entry) ==
    ranking.switches[CHOOSE i \in 1..Len(ranking.switches) :
                        ranking.switches[i].species = entry.pokemon]

\* C15: a switch-in whose hazard plus attack damage is at least its current
\* HP percentage is flagged as not surviving and scores exactly -100, a
\* surviving one scores more than 100, and no non-surviving switch-in is
\* ranked before a surviving one
C15_DeadSwitchesRankLast ==
    /\ \A i \in 1..Len(ranked) :
          LET e == ranked[i]
              total == e.damage_on_switch.hazards + e.damage_on_switch.attack.damage
          IN  /\ e.rank = i
              /\ total >= SwitchIn(e).current_hp_percent * Scale
                    => (~e.survives /\ e.score = -100 * Scale)
              /\ e.survives => e.score > 100 * Scale
    /\ \A i, j \in 1..Len(ranked) :
          (i < j /\ ranked[j].survives) => ranked[i].survives

\* the team lists a switch-in that dies on entry before one that survives,
\* and the ranking has put it last
C15_Witness ==
    /\ Len(ranked) = 2
    /\ ranked[1].survives /\ ~ranked[2].survives
    /\ ranking.switches[1].species = ranked[2].pokemon
    /\ ranked[2].damage_on_switch.hazards > 0

\* the damage figures of the opponent's moves against the switch-in of entry
FiguresAgainst(entry) ==
    LET es == {i \in 1..Len(ranking.their_vs_bench) :
                  ranking.their_vs_bench[i].defender = entry.pokemon}
    IN  IF es = {} THEN << >> ELSE ranking.their_vs_bench[Min(es)].results

\* C16: when the predicted move has a damage figure against the switch-in,
\* a figure of 0% included, the attack damage used is the average of that
\* figure; the worst case (the move of highest max%) is used only when there
\* is no such figure
C16_PredictedMoveDamageUsed ==
    \A i \in 1..Len(ranked) :
        LET e == ranked[i]
            figures == FiguresAgainst(e)
            mine == IF Truthy(ranking.expected_move)
                    THEN {k \in 1..Len(figures) :
                             figures[k].move = MoveKey(ranking.expected_move.text)}
                    ELSE {}
            average(f) == (Scale \div 2) * (f.min_percent + f.max_percent)
            used == e.damage_on_switch.attack.damage
        IN  (ranking.opponent_active /\ figures # << >>) =>
                IF mine # {} THEN used = average(figures[Min(mine)])
                ELSE used = average(WorstCase(figures))

(***************************************************************************)
(* Properties of the damage results                                        *)
(***************************************************************************)
\* C17: _calculate_ko_chance returns "guaranteed" iff min_dmg >= current_hp;
\* else, iff max_dmg >= current_hp, the percentage ko_rolls / range_size *
\* 100 (formatted to the nearest whole percent); else None
C17_KoChanceArithmetic ==
    (calc.called /\ calc.call = "ko" /\ damage_result.called) =>
        LET ko == damage_result.ko_chance
            range_size == calc.max_dmg - calc.min_dmg + 1
            ko_rolls == calc.max_dmg - calc.current_hp + 1
            off == 100 * ko_rolls - ko.percent * range_size
        IN  /\ ko.kind = "guaranteed" <=> calc.min_dmg >= calc.current_hp
            /\ ko.kind = "percent"
                  <=> (calc.min_dmg < calc.current_hp
                         /\ calc.max_dmg >= calc.current_hp)
            /\ ko.kind = "percent"
                  => (2 * off <= range_size /\ -2 * off <= range_size)
            /\ ko.kind = "None" <=> calc.max_dmg < calc.current_hp

\* a roll of 3..5 against 5 HP: one KO roll of three, reported as 33%
C17_Witness ==
    /\ calc.called /\ calc.call = "ko" /\ damage_result.called
    /\ calc.min_dmg = 3 /\ calc.max_dmg = 5 /\ calc.current_hp = 5
    /\ damage_result.ko_chance = [kind |-> "percent", percent |-> 33]

\* C18: every DamageResult of _calculate_single has 0 <= min_percent <=
\* max_percent, and its ko_chance is "guaranteed" exactly when the minimum
\* damage, as a percentage of the defender's max HP, is at least the
\* defender's current HP percentage, for opponents (HP reported on the
\* 0-100 scale) and for our own Pokemon
C18_GuaranteedIffMinCoversHp ==
    (calc.called /\ calc.call = "single" /\ damage_result.called) =>
        LET \* current HP percentage, times defender_max_hp
            hp_percent_times_max ==
                IF ~calc.has_current_hp
                THEN calc.current_hp_fraction_percent * calc.defender_max_hp
                ELSE IF calc.is_opponent
                THEN calc.current_hp * calc.defender_max_hp
                ELSE 100 * calc.current_hp
        IN  /\ 0 <= damage_result.min_percent
            /\ damage_result.min_percent <= damage_result.max_percent
            /\ damage_result.ko_chance.kind = "guaranteed"
                  <=> 100 * calc.min_dmg >= hp_percent_times_max

(***************************************************************************)
(* Properties of the matchup simulation                                    *)
(***************************************************************************)
\* the number of hits that bring hp to 0 or below; more than max_turns
\* stands for never
HitsNeeded(hp, dmg) ==
    IF hp <= 0 THEN 0
    ELSE IF dmg <= 0 THEN max_turns + 1
    ELSE (hp + dmg - 1) \div dmg

\* C19: the side whose HP reaches <= 0 first loses and the other wins; both
\* at <= 0 together is a draw; the turn cap with both above 0 is a draw
C19_FirstToFallLoses ==
    sim_result.called =>
        LET we_need == HitsNeeded(sim.args.their_hp, sim.our_damage_per_turn)
            they_need == HitsNeeded(sim.args.our_hp, sim.their_damage_per_turn)
            \* the iteration in which each side falls, and whether we strike
            \* first within one iteration
            they_fall_first ==
                /\ we_need <= max_turns
                /\ \/ we_need < they_need
                   \/ we_need = they_need /\ we_need > 0 /\ sim.we_outspeed
            we_fall_first ==
                /\ they_need <= max_turns
                /\ \/ they_need < we_need
                   \/ we_need = they_need /\ we_need > 0 /\ ~sim.we_outspeed
        IN  /\ sim_result.outcome = "win" <=> they_fall_first
            /\ sim_result.outcome = "lose" <=> we_fall_first
            /\ sim_result.outcome = "draw"
                  <=> \/ we_need = 0 /\ they_need = 0
                      \/ we_need > max_turns /\ they_need > max_turns

\* both fall in the second iteration's worth of hits; they are faster, so we
\* fall first and lose
C19_Witness ==
    /\ sim_result.called
    /\ ~sim.we_outspeed
    /\ sim.args = [our_hp |-> 2, their_hp |-> 2]
    /\ sim.our_damage_per_turn = 1 /\ sim.their_damage_per_turn = 1
    /\ sim_result.outcome = "lose" /\ sim_result.turns = 2
    /\ sim_result.their_remaining_hp = 1

\* an iteration of the loop begins
IterationBegins == sim'.turns = sim.turns + 1

\* C20: the simulation terminates for every input, zero and negative damage
\* included: the loop runs at most 20 iterations, the returned turn count is
\* in 0..20, both returned HP values are >= 0, and no iteration begins once
\* a side's HP is <= 0
C20_SimulationTerminates ==
    /\ [](sim.called => sim.turns \in 0..20)
    /\ [](sim_result.called =>
            /\ sim_result.turns \in 0..20
            /\ sim_result.turns = sim.turns
            /\ sim_result.our_remaining_hp >= 0
            /\ sim_result.their_remaining_hp >= 0)
    /\ [][IterationBegins => (sim.our_hp > 0 /\ sim.their_hp > 0)]_vars
    /\ [][sim_result.called => UNCHANGED sim]_vars
    /\ <>(sim.called => sim_result.called)

\* nobody can hurt the other: the cap ends the fight after 20 iterations
C20_Witness ==
    /\ sim_result.called
    /\ sim.our_damage_per_turn <= 0 /\ sim.their_damage_per_turn < 0
    /\ sim_result.turns = 20
    /\ sim_result.outcome = "draw"
    /\ sim_result.our_remaining_hp > sim.args.our_hp

(***************************************************************************)
(* Properties of the speed analysis                                        *)
(***************************************************************************)
\* base speed times stage multiplier, halved if paralysed, doubled under
\* that side's Tailwind (each step rounded down)
EffectiveSpeed(pokemon, tailwind) ==
    LET staged == IF pokemon.boosts_spe >= 0
                  THEN (pokemon.spe * (2 + pokemon.boosts_spe)) \div 2
                  ELSE (pokemon.spe * 2) \div (2 - pokemon.boosts_spe)
        halved == IF pokemon.status = "PAR" THEN staged \div 2 ELSE staged
    IN  IF tailwind THEN 2 * halved ELSE halved

\* C21: we_outspeed is (ours > theirs) on the effective speeds without
\* Trick Room and (ours < theirs) with it, and the Choice-Scarf hypothetical
\* is compared the same way
C21_TrickRoomInvertsOrder ==
    speed_analysis.called =>
        LET ours == EffectiveSpeed(speed_call.ours, speed_call.tailwind_active)
            theirs == EffectiveSpeed(speed_call.theirs,
                                     speed_call.opponent_tailwind_active)
            scarf == speed_analysis.their_speed_with_scarf
        IN  /\ speed_analysis.our_speed = ours
            /\ speed_analysis.their_speed = theirs
            /\ speed_analysis.we_outspeed
                  = IF speed_call.trick_room_active THEN ours < theirs
                    ELSE ours > theirs
            /\ ~scarf.isNone =>
                  /\ scarf.text = (3 * theirs) \div 2
                  /\ speed_analysis.we_outspeed_if_they_scarf
                        = IF speed_call.trick_room_active THEN ours < scarf.text
                          ELSE ours > scarf.text

\* under Trick Room we are paralysed and slower, so we move first, against
\* their speed as it is and against it with a Choice Scarf
C21_Witness ==
    /\ speed_analysis.called
    /\ speed_call.trick_room_active
    /\ speed_call.ours.status = "PAR"
    /\ speed_analysis.our_speed < speed_analysis.their_speed
    /\ speed_analysis.we_outspeed
    /\ ~speed_analysis.their_speed_with_scarf.isNone
    /\ speed_analysis.we_outspeed_if_they_scarf

\* the opponent's item has not been revealed
ItemUnrevealed(item) ==
    \/ item.isNone
    \/ item.text \in {<< >>, <<"unknown">>, <<"unknown", "_", "item">>}

\* a Choice Scarf, however it is written
IsScarf(text) == text \in {<<"choice", "scarf">>, <<"Choice", " ", "Scarf">>}

\* C22: their_speed_with_scarf is computed exactly when the opponent's
\* Choice Scarf is not ruled out: the item is unrevealed (the unknown-item
\* placeholder included) and the pool of plausible items holds a scarf or is
\* not known; it is not computed when a non-scarf item is revealed or the
\* pool holds no scarf
C22_ScarfHypotheticalIffNotRuledOut ==
    speed_analysis.called =>
        LET item == speed_call.theirs.item
            pool == speed_call.pool
            pool_known == pool.has_randbats_data /\ pool.items # << >>
            pool_has_scarf == \E i \in 1..Len(pool.items) : IsScarf(pool.items[i])
            not_ruled_out ==
                IF ItemUnrevealed(item) THEN ~pool_known \/ pool_has_scarf
                ELSE IsScarf(item.text)
        IN  ~speed_analysis.their_speed_with_scarf.isNone <=> not_ruled_out

(***************************************************************************)
(* Properties of the best-move ranking                                     *)
(***************************************************************************)
\* the legal move a ranked entry is about
LegalMove(entry) ==
    move_ranking.available_moves[
        CHOOSE i \in 1..Len(move_ranking.available_moves) :
            move_ranking.available_moves[i].id = entry.move]

\* C23: when the active Pokemon is not choice-locked, _rank_moves returns
\* every legal move exactly once, in non-increasing
\* order of score, rank i at position i, with score = avg(min%, max%) + 200
\* for a guaranteed KO, else + the KO chance if any, times accuracy/100 when
\* accuracy < 100; a sole legal move with a guaranteed KO is rank 1 with a
\* "Guaranteed KO" justification
C23_MovesRankedByScore ==
    (move_ranking.returned /\ move_ranking.best_moves = "ranked") =>
        LET legal == move_ranking.available_moves
            n == Len(legal)
        IN  /\ Len(ranked_moves) = n
            /\ \A i \in 1..n : \E j \in 1..n : ranked_moves[j].move = legal[i].id
            /\ \A i, j \in 1..n : i # j => ranked_moves[i].move # ranked_moves[j].move
            /\ \A i \in 1..n : ranked_moves[i].rank = i
            /\ \A i, j \in 1..n : i < j => ranked_moves[i].score >= ranked_moves[j].score
            /\ \A i \in 1..n :
                  LET e == ranked_moves[i]
                      fig == e.damage_to_active
                      acc == e.accuracy
                  IN  \* 100 times the score, to stay in the integers
                      ~fig.isNone =>
                         /\ 100 * e.score
                               = (IF acc < 100 THEN acc ELSE 100)
                                    * ((Scale * (fig.text.min_percent
                                                    + fig.text.max_percent)) \div 2
                                       + Scale * (IF fig.text.ko_chance.kind = "guaranteed"
                                                  THEN 200
                                                  ELSE IF fig.text.ko_chance.kind = "percent"
                                                  THEN fig.text.ko_chance.percent
                                                  ELSE 0))
                         /\ acc = IF LegalMove(e).accuracy = 0 THEN 100
                                  ELSE LegalMove(e).accuracy
            /\ (n = 1 /\ ~ranked_moves[1].damage_to_active.isNone
                  /\ ranked_moves[1].damage_to_active.text.ko_chance.kind = "guaranteed")
                  => (ranked_moves[1].rank = 1
                        /\ "Guaranteed KO" \in Range(ranked_moves[1].reasoning))

\* the move listed second has the guaranteed KO and is ranked first, ahead
\* of a move with a KO chance that hits every time
C23_Witness ==
    /\ move_ranking.returned
    /\ move_ranking.best_moves = "ranked"
    /\ Len(ranked_moves) = 2
    /\ ranked_moves[1].move = move_ranking.available_moves[2].id
    /\ "Guaranteed KO" \in Range(ranked_moves[1].reasoning)
    /\ ranked_moves[1].accuracy = 50
    /\ ranked_moves[2].accuracy = 100
    /\ ~ranked_moves[2].damage_to_active.isNone
    /\ ranked_moves[2].damage_to_active.text.ko_chance.kind = "percent"
    /\ ranked_moves[1].score > ranked_moves[2].score

\* C24: with no legal moves and at least one legal switch (the active
\* Pokemon has fainted) the turn takes a forced-switch path and makes no
\* move-ranking call
C24_ForcedSwitchSkipsMoveRanking ==
    (/\ move_ranking.returned
     /\ move_ranking.available_moves = << >>
     /\ move_ranking.available_switches # << >>)
        => move_ranking.rank_calls = 0

(***************************************************************************)
(* Properties of the player across its battles                             *)
(***************************************************************************)
\* the team-analysis graph is invoked for battle t in this step
TeamAnalysisRuns(t) == battles'[t].team_runs = battles[t].team_runs + 1

\* C25: over the choose_move calls of one battle the team analysis is run at
\* most once, and only while the turn counter is 1; a failing or empty team
\* analysis does not fail the turn and leaves a stored analysis in place
C25_TeamAnalysisOncePerBattle ==
    /\ [](player.called => \A t \in BattleTags : battles[t].team_runs <= 1)
    /\ [][\A t \in BattleTags : TeamAnalysisRuns(t) => battles[t].turn = 1]_vars
    /\ [][\A t \in BattleTags :
             (/\ TeamAnalysisRuns(t)
              /\ battle_context[t].present
              /\ ~battle_context[t].team_analysis.isNone
              /\ battle_context'[t].team_analysis # battle_context[t].team_analysis)
               => (/\ ~battle_context'[t].team_analysis.isNone
                   /\ battle_context'[t].team_analysis.text.run = battles'[t].team_runs)]_vars
    /\ [][\A t \in BattleTags : TeamAnalysisRuns(t) => battles'[t].pc = "chat"]_vars

\* C27: the team_analysis in the initial state of a turn of battle t is the
\* one stored under t's own tag, an analysis written for t or None; the
\* finished callback of a battle removes that battle's entry and leaves the
\* entries of the other battles as they were
C27_BattlesAreIsolated ==
    /\ [](player.called =>
            \A t \in BattleTags :
               \/ battles[t].initial_team_analysis.isNone
               \/ battles[t].initial_team_analysis.text.battle = t)
    /\ [][\A t \in BattleTags :
             (battles[t].pc # "chat" /\ battles'[t].pc = "chat")
               => (/\ battle_context'[t].present
                   /\ battles'[t].initial_team_analysis = battle_context'[t].team_analysis
                   /\ \A u \in BattleTags \ {t} : battle_context'[u] = battle_context[u])]_vars
    /\ [][\A t \in BattleTags :
             (~battles[t].finished /\ battles'[t].finished)
               => (/\ ~battle_context'[t].present
                   /\ \A u \in BattleTags \ {t} : battle_context'[u] = battle_context[u])]_vars

\* battle-b has finished and its entry is gone while battle-a, in its second
\* turn, is given the analysis stored for it on turn 1
C27_Witness ==
    /\ player.called
    /\ battles["battle-b"].finished /\ battles["battle-b"].team_runs > 0
    /\ ~battle_context["battle-b"].present
    /\ battles["battle-a"].turn = 2 /\ battles["battle-a"].pc = "chat"
    /\ battles["battle-a"].initial_team_analysis = Some([battle |-> "battle-a", run |-> 1])

(***************************************************************************)
(* Properties of the damage engine on the snapshot                         *)
(***************************************************************************)
\* C26: a batch operation of the damage engine leaves every Pokemon of the
\* snapshot with the stats, level, item and ability it had before
C26_SnapshotNeverMutated == [][snapshot' = snapshot]_vars

\* the item and ability of every Pokemon of snapshot a are those of b
SameItemsAndAbilities(a, b) ==
    \A id \in PokemonIds : a[id].item = b[id].item /\ a[id].ability = b[id].ability

\* C30: after _calculate_with_variants, returned or raised, both Pokemon have
\* the item and ability they had before the call; the returned list has no
\* two results with the same (min_percent, max_percent), and a list of one
\* result carries no assumed item and no assumed ability
C30_VariantsRestoreAndDeduplicate ==
    (variant_result.called /\ variant_result.operation = "variants") =>
        /\ SameItemsAndAbilities(snapshot, variant_result.before)
        /\ \A j, k \in 1..Len(variant_result.results) :
              (/\ variant_result.results[j].min_percent
                     = variant_result.results[k].min_percent
               /\ variant_result.results[j].max_percent
                     = variant_result.results[k].max_percent)
                 => j = k
        /\ Len(variant_result.results) = 1
              => /\ variant_result.results[1].assumed_item = None
                 /\ variant_result.results[1].assumed_ability = None

\* a call left by an exception on its second variant, after the first
\* variant's item had been set on the Pokemon
C30_Witness ==
    /\ variant_result.called /\ variant_result.operation = "variants"
    /\ variant_result.raised
    /\ variant_result.variants > 1
    /\ variant_result.passes = 2

(***************************************************************************)
(* Properties of what TeamsState computes once                             *)
(***************************************************************************)
\* what _create_pokemon_state computes for a species
Computed(state) ==
    [species |-> state.species, level |-> state.level, stats |-> state.stats,
     possible_moves |-> state.possible_moves,
     possible_items |-> state.possible_items,
     possible_abilities |-> state.possible_abilities]

\* C28: update_from_battle leaves the level, the stat line and the move, item
\* and ability pools of every species TeamsState already holds as they are,
\* and gives a species it sees for the first time those that
\* _create_pokemon_state computes
C28_ComputedOnceOnFirstSight ==
    [][tracking = "teams" =>
          /\ \A species \in DOMAIN their_team :
                /\ species \in DOMAIN their_team'
                /\ Computed(their_team'[species]) = Computed(their_team[species])
          /\ \A species \in DOMAIN our_team :
                /\ species \in DOMAIN our_team'
                /\ Computed(our_team'[species]) = Computed(our_team[species])
          /\ \A species \in DOMAIN their_team' \ DOMAIN their_team :
                Computed(their_team'[species])
                    = Computed(_create_pokemon_state(species, their_team'[species]))]_vars

\* the first species after several updates: two moves revealed one by one,
\* its item revealed, and its level and pools as computed on first sight
C28_Witness ==
    /\ tracking = "teams"
    /\ SpeciesA \in DOMAIN their_team
    /\ Len(their_team[SpeciesA].revealed_moves) = 2
    /\ their_team[SpeciesA].revealed_item = "choicescarf"
    /\ their_team[SpeciesA].is_fainted
    /\ their_team[SpeciesA].level = 84
    /\ their_team[SpeciesA].possible_items = <<"leftovers", "choicescarf">>

(***************************************************************************)
(* Properties of _execute_action on its own                                *)
(***************************************************************************)
\* C29: for every decision the parser can leave and every snapshot with a
\* legal option, _execute_action returns an order for one of the legal moves
\* or switches and does not raise; without a target the order is the first
\* legal move, else the first legal switch; without legal moves the order is
\* a switch
C29_ExecuteAlwaysIssuesLegalOrder ==
    (pc = "finished" /\ HasLegalOption)
        => /\ ~exception
           /\ OrderIsLegal
           /\ ~Truthy(action_target) =>
                 order = IF battle.available_moves # << >>
                         THEN MoveOrder(battle.available_moves[1])
                         ELSE SwitchOrder(battle.available_switches[1])
           /\ battle.available_moves = << >> => order.kind = "switch"

\* a switch decision without a target, in a snapshot with moves and switches:
\* the first legal move was issued
C29_Witness ==
    /\ pc = "finished"
    /\ action_type = "switch"
    /\ action_target = None
    /\ battle.available_moves # << >>
    /\ battle.available_switches # << >>
    /\ order = MoveOrder(battle.available_moves[1])

====
